---- MODULE Spec2Model ----
(***************************************************************************)
(* Assistant Hub front end: the API client (token storage, 401 handling),  *)
(* App / Layout / Login, and the Tasks, Notes and Emails pages with their  *)
(* collection caches, filters, pagination, selection and mutations.        *)
(*                                                                         *)
(* One page is mounted at a time (App's <Routes>); `route` names it.       *)
(* Every awaited request is a record in `reqs`: the handler that sent it   *)
(* stores what its closure captured, the server answers it at some later   *)
(* moment, and the handler resumes when the answer is delivered.  Effects  *)
(* (useEffect) run inside the step whose state change triggers them.       *)
(***************************************************************************)
EXTENDS Integers, Sequences, FiniteSets, Bags, TLC

\* ------------------------------------------------------------------ bounds
MaxTasks == 3        \* ids 1..MaxTasks are all the task ids the server ever assigns
MaxNotes == 12       \* ids 1..MaxNotes are all the note ids the server ever assigns
MaxMsgs == 45        \* the largest message list the server returns
MaxInflight == 2     \* awaited requests in flight at the same time
MaxRequests == 2     \* requests the user's actions cause after the page has mounted

\* ------------------------------------------------------- program constants
PAGE_SIZE == 20      \* Emails: messages per page
pageSize == 10       \* Notes: notes per page

\* Tasks reads a timestamp in local time. Here a timestamp counts half days
\* from the midnight a Sunday and a month begin with, and a month has ten days
\* (so that weeks and months overlap as they do in the calendar).
TicksPerDay == 2     \* the instants setHours(0, 0, 0, 0) takes to one midnight
DaysPerWeek == 7     \* getDay() is 0 (Sunday) .. 6
DaysPerMonth == 10   \* the dates setDate(1) takes to the first of one month
Null == 0            \* JS null / "" for ids (ids are positive, 0 is falsy)
InvalidDue == -1     \* a due_date new Date() cannot parse (getTime() is NaN)

\* ----------------------------------------------------------------- strings
\* A JS string is a sequence of characters; " " is the only whitespace used.
\* "A" and "B" are the upper-case characters used.
toLowerCase(s) ==
  [i \in 1..Len(s) |-> IF s[i] = "A" THEN "a" ELSE IF s[i] = "B" THEN "b" ELSE s[i]]

RECURSIVE trimStart(_)
trimStart(s) == IF s # <<>> /\ Head(s) = " " THEN trimStart(Tail(s)) ELSE s

RECURSIVE trimEnd(_)
trimEnd(s) ==
  IF s # <<>> /\ s[Len(s)] = " " THEN trimEnd(SubSeq(s, 1, Len(s) - 1)) ELSE s

trim(s) == trimEnd(trimStart(s))

includes(s, q) ==
  \E i \in 0..(Len(s) - Len(q)) : SubSeq(s, i + 1, i + Len(q)) = q

Ids(s) == [i \in 1..Len(s) |-> s[i].id]
IdSet(s) == {s[i].id : i \in 1..Len(s)}

\* ------------------------------------------------------------ HTTP results
\* A response: status 0 is "no response received" (network error), 2xx is
\* success, anything else an HTTP error with a payload `data`.
NoData == [isString |-> TRUE, text |-> ""]

\* typeof data === "string" ? data : JSON.stringify(data)
JSONstringify(data) == <<"{", data.text, "}">>
RenderData(data) == IF data.isString THEN <<data.text>> ELSE JSONstringify(data)

NoError == <<>>      \* error state ""
\* (a message that names the status only)
HttpErrorTextNoData(status, what, data) == <<"Error", ToString(status), what>>

\* `Error ${status} while ${what}: ${data}`
HttpErrorText(status, what, data) ==
  <<"Error", ToString(status), what>> \o RenderData(data)

ContainsSeq(msg, part) ==
  \E i \in 0..(Len(msg) - Len(part)) : SubSeq(msg, i + 1, i + Len(part)) = part


\* The outcomes a request can have besides success.
Failures == {[status |-> 400, data |-> [isString |-> TRUE, text |-> "bad request"]],
             [status |-> 401, data |-> [isString |-> FALSE, text |-> "detail"]],
             [status |-> 0, data |-> NoData]}

Resp(status, data, body) == [status |-> status, data |-> data, body |-> body]
Ok(body) == Resp(200, NoData, body)
Fail(f) == Resp(f.status, f.data, <<>>)
IsOk(r) == r.status = 200
IsHttpError(r) == r.status >= 400     \* err.response is set

\* ------------------------------------------------------------------- state
VARIABLES
  route,            \* the page App's <Routes> renders
  storage,          \* localStorage: the "access" and "refresh" keys
  isAuth,           \* App: useState(!!localStorage.getItem("access"))
  reqs,             \* awaited requests in flight: a bag of request records
  sent,             \* how many requests the client has sent so far
  \* server side (the REST collaborator)
  serverTasks, serverNextTaskId,
  \* Tasks page
  tasks, editingTaskId, taskError, isDeleting, isFormOpen, taskSearch,
  groupMode, dragIndex,   \* calendar view: grouping mode, the dragged row
  dragTaskId,             \* KanbanBoard: the dragged card
  \* server side: /notes/
  serverNotes, serverNextNoteId,
  \* Notes page
  notes, editingNoteId, noteError, isSaving, jobFilter, typeFilter, noteSearch,
  notePage,
  \* Emails page
  accounts, selectedAccountId, messages, selectedMessage, search, dateMode, page,
  loadingMessages, emailError, viewMode,
  \* Login and Layout
  loginError, currentUser, userError, emailUnreadCount,
  intervals,        \* the timers setInterval has started and nothing has cleared
  \* Calendar page: usePomodoro
  minutes, seconds, running,
  pomodoroInterval  \* the interval of the hook's effect: what its callback captured

tasksVars == <<tasks, editingTaskId, taskError, isDeleting, isFormOpen, taskSearch>>
boardVars == <<groupMode, dragIndex, dragTaskId>>
serverVars == <<serverTasks, serverNextTaskId>>
appVars == <<route, storage, isAuth>>
pomodoroVars == <<minutes, seconds, running, pomodoroInterval>>
netVars == <<reqs, sent>>
noteServerVars == <<serverNotes, serverNextNoteId>>
notesVars == <<notes, editingNoteId, noteError, isSaving, jobFilter, typeFilter,
               noteSearch, notePage>>
emailsVars == <<accounts, selectedAccountId, messages, selectedMessage, search,
                dateMode, page, loadingMessages, emailError, viewMode>>
shellVars == <<loginError, currentUser, userError, emailUnreadCount>>
vars == <<appVars, netVars, serverVars, tasksVars, noteServerVars, notesVars,
          emailsVars, shellVars, boardVars, intervals, pomodoroVars>>

\* ---------------------------------------------------------------- requests
\* A request record: what was sent (kind, url, id, payload), what the
\* handler's closure captured (cap, then, seen), and the server's answer once
\* the server has taken the request.
NoPayload == [fields |-> {}, title |-> <<>>, status |-> "", due_date |-> Null]
Req(kind, url, id, cap, payload, then) ==
  [kind |-> kind, url |-> url, id |-> id, cap |-> cap,
   payload |-> payload, then |-> then, seen |-> <<>>, auth |-> <<>>,
   phase |-> "sent", resp |-> Resp(-1, NoData, <<>>)]

InFlight == BagToSet(reqs)
\* n more requests may be sent (the first of them now)
CanSend(n) == BagCardinality(reqs) < MaxInflight /\ sent + n <= MaxRequests
Release(r) == reqs (-) SetToBag({r})
Answer(r, resp) ==
  Release(r) (+) SetToBag({[r EXCEPT !.phase = "answered", !.resp = resp]})

\* What request r comes back with, once that is decided.
Outcomes(r) == IF r.phase = "answered" THEN {r.resp} ELSE {}

\* ---------------------------------------------------------------- intervals
\* A timer setInterval has started: the component whose effect owns it and
\* what the closure of its callback holds.
Timer(owner, account, q) == [owner |-> owner, account |-> account, q |-> q]
LayoutTimer == Timer("Layout", Null, <<>>)
EmailTimers == {tm \in intervals : tm.owner = "Emails"}

\* (an effect that returns no cleanup)
AutoSyncNoCleanup(timers, account, q) ==
  timers \cup (IF account = Null THEN {} ELSE {Timer("Emails", account, q)})

\* Emails' auto-sync effect on [currentAccount?.id, search]: the cleanup of
\* its previous run clears that run's interval, then a new interval is set
\* unless no account is current.
AutoSyncEffect(timers, account, q) ==
  {tm \in timers : tm.owner # "Emails"}
    \cup (IF account = Null THEN {} ELSE {Timer("Emails", account, q)})

\* -------------------------------------------------- API client (client.js)
NoToken == ""
Tokens(a, r) == [access |-> a, refresh |-> r]
removeItem(st, key) == [st EXCEPT ![key] = NoToken]

\* (an interceptor that writes the header whatever getItem returns)
AlwaysBearer(st, config) == [config EXCEPT !.auth = <<"Bearer", st.access>>]

\* client.interceptors.request.use: the config a request leaves with, for the
\* localStorage it is sent from. auth is the Authorization header, <<>> when
\* the request has none.
RequestInterceptor(st, config) ==
  IF st.access # NoToken
  THEN [config EXCEPT !.auth = <<"Bearer", st.access>>]
  ELSE config

\* The requests rs on the wire, sent while localStorage is st.
Sending(st, rs) == SetToBag({RequestInterceptor(st, r) : r \in rs})
Issue(r) == reqs (+) Sending(storage, {r})

\* (an interceptor that spares no url)
ClearOnAny401(st, url, resp) ==
  IF IsOk(resp)
  THEN [storage |-> st, settled |-> "fulfilled", value |-> resp]
  ELSE [storage |-> IF IsHttpError(resp) /\ resp.status = 401
                    THEN removeItem(removeItem(st, "access"), "refresh")
                    ELSE st,
        settled |-> "rejected", value |-> resp]

\* (an interceptor that removes "access" and keeps "refresh")
ClearAccessOnly(st, url, resp) ==
  IF IsOk(resp)
  THEN [storage |-> st, settled |-> "fulfilled", value |-> resp]
  ELSE [storage |-> IF IsHttpError(resp) /\ resp.status = 401 /\ url # "/token/"
                    THEN removeItem(st, "access")
                    ELSE st,
        settled |-> "rejected", value |-> resp]

\* client.interceptors.response.use(onFulfilled, onRejected): what the
\* caller's await settles with, and localStorage afterwards.
ResponseInterceptor(st, url, resp) ==
  IF IsOk(resp)
  THEN [storage |-> st, settled |-> "fulfilled", value |-> resp]
  ELSE [storage |-> IF IsHttpError(resp) /\ resp.status = 401 /\ url # "/token/"
                    THEN removeItem(removeItem(st, "access"), "refresh")
                    ELSE st,
        settled |-> "rejected", value |-> resp]

Settle(r, resp) == ResponseInterceptor(storage, r.url, resp)

\* ------------------------------------------------------- server: /tasks/
Task(id, title, status, due) ==
  [id |-> id, title |-> title, status |-> status, due_date |-> due]

InitialServerTasks ==
  << Task(1, <<"a">>, "todo", 2), Task(2, <<"B">>, "done", 1) >>


\* PATCH: the fields of the body replace the stored ones.
Patched(old, p) ==
  Task(old.id,
       IF "title" \in p.fields THEN p.title ELSE old.title,
       IF "status" \in p.fields THEN p.status ELSE old.status,
       IF "due_date" \in p.fields THEN p.due_date ELSE old.due_date)

\* (as a splice that moves the replaced record to the end would do it)
ReplaceByIdAtEnd(list, id, rec) ==
  IF id \in IdSet(list)
  THEN SelectSeq(list, LAMBDA t : t.id # id) \o <<rec>>
  ELSE list

\* (a handler that drops the record the server returned)
ReplaceNothing(list, id, rec) == list

\* prev.map((t) => (t.id === id ? rec : t))
ReplaceById(list, id, rec) ==
  [i \in 1..Len(list) |-> IF list[i].id = id THEN rec ELSE list[i]]
RemoveById(list, id) == SelectSeq(list, LAMBDA t : t.id # id)

\* The server takes a request to /tasks/ and answers it: success applies the
\* request; an HTTP error or a lost connection leaves the data as it was, and
\* is all a request for an id the server does not hold can get.
ServerAnswerTasks(r) ==
  /\ route = "tasks"
  /\ r.phase = "sent"
  /\ \/ /\ r.kind = "loadTasks"
        /\ reqs' = Answer(r, Ok(serverTasks))
        /\ UNCHANGED serverVars
     \/ /\ r.kind = "createTask"
        /\ LET new == Task(serverNextTaskId, r.payload.title, r.payload.status,
                           r.payload.due_date) IN
           /\ serverTasks' = Append(serverTasks, new)
           /\ serverNextTaskId' = serverNextTaskId + 1
           /\ reqs' = Answer(r, Ok(<<new>>))
     \/ /\ r.kind \in {"updateTask", "toggleTask", "kanbanTask"}
        /\ r.id \in IdSet(serverTasks)
        /\ LET old == serverTasks[CHOOSE i \in 1..Len(serverTasks) :
                                    serverTasks[i].id = r.id]
               new == Patched(old, r.payload) IN
           /\ serverTasks' = ReplaceById(serverTasks, r.id, new)
           /\ reqs' = Answer(r, Ok(<<new>>))
        /\ UNCHANGED serverNextTaskId
     \/ /\ r.kind = "deleteTask"
        /\ r.id \in IdSet(serverTasks)
        /\ serverTasks' = RemoveById(serverTasks, r.id)
        /\ reqs' = Answer(r, Ok(<<>>))
        /\ UNCHANGED serverNextTaskId
     \/ /\ \E f \in Failures : reqs' = Answer(r, Fail(f))
        /\ UNCHANGED serverVars
  /\ UNCHANGED <<appVars, sent, tasksVars>>
  /\ UNCHANGED <<noteServerVars, notesVars, emailsVars, shellVars, boardVars, intervals>>
  /\ UNCHANGED pomodoroVars


\* ------------------------------------------------------ Tasks page (Tasks.jsx)
\* The comparator of loadTasks' sort: < 0, 0 or > 0. A due_date is Null
\* (missing), InvalidDue or a timestamp.
compareDue(a, b) ==
  IF a.due_date = Null /\ b.due_date = Null THEN 0
  ELSE IF a.due_date = Null THEN 1
  ELSE IF b.due_date = Null THEN -1
  ELSE IF a.due_date = InvalidDue \/ b.due_date = InvalidDue THEN 0
  ELSE a.due_date - b.due_date

\* Array.prototype.sort is stable: x goes after the last element not above it.
RECURSIVE InsertByDue(_, _)
InsertByDue(sorted, x) ==
  IF sorted = <<>> THEN <<x>>
  ELSE IF compareDue(sorted[Len(sorted)], x) > 0
       THEN InsertByDue(SubSeq(sorted, 1, Len(sorted) - 1), x) \o <<sorted[Len(sorted)]>>
       ELSE Append(sorted, x)

RECURSIVE SortByDue(_)
SortByDue(list) ==
  IF list = <<>> THEN <<>>
  ELSE InsertByDue(SortByDue(SubSeq(list, 1, Len(list) - 1)), list[Len(list)])

\* filteredTasks: tasks carry no description and no tags here, so the title
\* is the only text that can match.
filteredTasks(list, query) ==
  LET q == toLowerCase(trim(query)) IN
  IF q = <<>> THEN list
  ELSE SelectSeq(list, LAMBDA t : includes(toLowerCase(t.title), q))

VisibleTasks == filteredTasks(tasks, taskSearch)
VisibleTaskSet == {VisibleTasks[i] : i \in 1..Len(VisibleTasks)}

\* What the user types into the form and the search box.
NowStamp == 3
FormInputs == {[title |-> <<"a", "b">>, status |-> "in_progress", due_date |-> Null]}
SearchInputs == {<<>>, <<"b", " ">>}
KANBAN_COLUMNS == {"todo", "in_progress", "done"}

\* handleSubmit's payload: an empty due_date becomes now.
SubmitPayload(form) ==
  [fields |-> {"title", "status", "due_date"}, title |-> form.title,
   status |-> form.status,
   due_date |-> IF form.due_date = Null THEN NowStamp ELSE form.due_date]
\* (a body that sends the whole record back)
WholeTaskPayload(status) ==
  [fields |-> {"title", "status", "due_date"}, title |-> <<>>, status |-> status,
   due_date |-> Null]
\* { status }: the updates of a column drop, the body of a checkbox toggle
StatusPayload(status) ==
  [fields |-> {"status"}, title |-> <<>>, status |-> status, due_date |-> Null]

UnauthorizedText ==
  <<"Unauthorized (", "401", "). You might not be logged in or your token expired.">>
\* the catch block of handleSubmit
SaveTaskError(resp) ==
  IF IsHttpError(resp)
  THEN IF resp.status = 401 THEN UnauthorizedText
       ELSE HttpErrorText(resp.status, "while saving task:", resp.data)
  ELSE <<"Network error while saving task. Check console for details.">>
\* the catch blocks of handleKanbanUpdateTask and handleToggleDone
UpdateTaskError(resp) ==
  IF IsHttpError(resp)
  THEN HttpErrorText(resp.status, "while updating task:", resp.data)
  ELSE <<"Network error while updating task. Check console for details.">>
\* the catch block of handleDeleteTask
DeleteTaskError(resp) ==
  IF IsHttpError(resp)
  THEN HttpErrorText(resp.status, "while deleting task:", resp.data)
  ELSE <<"Network error while deleting task. Check console for details.">>
LoadTasksError == <<"Could not load tasks. Check console for details.">>

\* "+ Add task": resetToNewTask(); setIsFormOpen(true)
AddTaskClick ==
  /\ route = "tasks"
  /\ editingTaskId' = Null
  /\ taskError' = NoError
  /\ isFormOpen' = TRUE
  /\ UNCHANGED <<appVars, netVars, serverVars, tasks, isDeleting, taskSearch>>
  /\ UNCHANGED <<noteServerVars, notesVars, emailsVars, shellVars, boardVars, intervals>>
  /\ UNCHANGED pomodoroVars

\* handleSelectTask(t) for a row of the rendered list
handleSelectTask(t) ==
  /\ route = "tasks"
  /\ editingTaskId' = t.id
  /\ taskError' = NoError
  /\ isFormOpen' = TRUE
  /\ UNCHANGED <<appVars, netVars, serverVars, tasks, isDeleting, taskSearch>>
  /\ UNCHANGED <<noteServerVars, notesVars, emailsVars, shellVars, boardVars, intervals>>
  /\ UNCHANGED pomodoroVars

\* closeForm, as the Cancel button calls it
closeForm ==
  /\ route = "tasks"
  /\ isFormOpen
  /\ editingTaskId' = Null
  /\ taskError' = NoError
  /\ isFormOpen' = FALSE
  /\ UNCHANGED <<appVars, netVars, serverVars, tasks, isDeleting, taskSearch>>
  /\ UNCHANGED <<noteServerVars, notesVars, emailsVars, shellVars, boardVars, intervals>>
  /\ UNCHANGED pomodoroVars

\* the search box: setSearchQuery(e.target.value)
setSearchQuery(q) ==
  /\ route = "tasks"
  /\ q # taskSearch
  /\ taskSearch' = q
  /\ UNCHANGED <<appVars, netVars, serverVars, tasks, editingTaskId, taskError,
                 isDeleting, isFormOpen>>
  /\ UNCHANGED <<noteServerVars, notesVars, emailsVars, shellVars, boardVars, intervals>>
  /\ UNCHANGED pomodoroVars

\* A request of a Tasks handler that changes the cache after its await: the
\* handler is a closure of the render it was created in, and `seen` is the
\* tasks of that render.
TaskReq(kind, id, cap, payload) ==
  [Req(kind, "/tasks/:id/", id, cap, payload, "") EXCEPT !.seen = tasks]

\* (an update computed from the tasks of the handler's closure)
captured(cache, seen) == seen

\* setTasks((prev) => ...): React calls the updater with the cache as it is
\* when the update is applied.
prev(cache, seen) == cache

CreatesInFlight ==
  Cardinality({r \in InFlight : r.kind = "createTask" /\ r.phase = "sent"})

\* handleSubmit up to its first await
handleSubmit(form) ==
  /\ route = "tasks"
  /\ isFormOpen
  /\ taskError' = NoError
  /\ IF editingTaskId = Null
     THEN /\ CanSend(2)         \* the POST and the reload that follows it
          /\ sent' = sent + 2
          /\ serverNextTaskId + CreatesInFlight <= MaxTasks
          /\ reqs' = Issue(Req("createTask", "/tasks/", Null, Null,
                               SubmitPayload(form), ""))
     ELSE /\ CanSend(1)
          /\ sent' = sent + 1
          /\ reqs' = Issue(TaskReq("updateTask", editingTaskId, Null, SubmitPayload(form)))
  /\ UNCHANGED <<appVars, serverVars, tasks, editingTaskId, isDeleting, isFormOpen,
                 taskSearch>>
  /\ UNCHANGED <<noteServerVars, notesVars, emailsVars, shellVars, boardVars, intervals>>
  /\ UNCHANGED pomodoroVars

\* handleToggleDone(task) up to its await
handleToggleDone(t) ==
  /\ route = "tasks"
  /\ CanSend(1)
  /\ sent' = sent + 1
  /\ reqs' = Issue(TaskReq("toggleTask", t.id, Null,
                           StatusPayload(IF t.status = "done" THEN "todo" ELSE "done")))
  /\ UNCHANGED <<appVars, serverVars, tasksVars>>
  /\ UNCHANGED <<noteServerVars, notesVars, emailsVars, shellVars, boardVars, intervals>>
  /\ UNCHANGED pomodoroVars

\* handleKanbanUpdateTask(taskId, updates) up to its await: KanbanBoard's
\* onUpdateTask
handleKanbanUpdateTask(taskId, updates) ==
  /\ CanSend(1)
  /\ taskError' = NoError
  /\ sent' = sent + 1
  /\ reqs' = Issue(TaskReq("kanbanTask", taskId, Null, updates))
  /\ UNCHANGED <<appVars, serverVars, tasks, editingTaskId, isDeleting, isFormOpen,
                 taskSearch>>
  /\ UNCHANGED pomodoroVars

\* KanbanBoard: a card of the board is picked up
handleCardDragStart(taskId) ==
  /\ route = "tasks"
  /\ dragTaskId = Null
  /\ dragTaskId' = taskId
  /\ UNCHANGED <<appVars, netVars, serverVars, tasksVars, groupMode, dragIndex>>
  /\ UNCHANGED <<noteServerVars, notesVars, emailsVars, shellVars, intervals>>
  /\ UNCHANGED pomodoroVars

\* task.status || "todo"
currentStatus(task) == IF task.status = "" THEN "todo" ELSE task.status

\* KanbanBoard's handleColumnDrop(status), for the column the drop lands on;
\* its tasks are the filteredTasks of the page
handleColumnDrop(status) ==
  /\ route = "tasks"
  /\ IF dragTaskId = Null
     THEN UNCHANGED <<appVars, netVars, serverVars, tasksVars, dragTaskId>>
     ELSE /\ dragTaskId' = Null
          /\ IF dragTaskId \notin IdSet(VisibleTasks)
             THEN UNCHANGED <<appVars, netVars, serverVars, tasksVars>>
             ELSE LET task == CHOOSE t \in VisibleTaskSet : t.id = dragTaskId IN
                  IF currentStatus(task) = status
                  THEN UNCHANGED <<appVars, netVars, serverVars, tasksVars>>
                  ELSE handleKanbanUpdateTask(task.id, StatusPayload(status))
  /\ UNCHANGED <<groupMode, dragIndex>>
  /\ UNCHANGED <<noteServerVars, notesVars, emailsVars, shellVars, intervals>>
  /\ UNCHANGED pomodoroVars

\* KanbanBoard's handleDragEnd: the card is let go outside a column
handleDragEnd ==
  /\ route = "tasks"
  /\ dragTaskId # Null
  /\ dragTaskId' = Null
  /\ UNCHANGED <<appVars, netVars, serverVars, tasksVars, groupMode, dragIndex>>
  /\ UNCHANGED <<noteServerVars, notesVars, emailsVars, shellVars, intervals>>
  /\ UNCHANGED pomodoroVars

\* Names every object literal inherits from Object.prototype: grouped[name]
\* is a function or an object for them, and none of these has a push method.
ObjectPrototype == {"constructor", "toString", "valueOf", "hasOwnProperty", "__proto__"}

\* const grouped = { todo: [], in_progress: [], done: [] }
NoColumns == [todo |-> <<>>, in_progress |-> <<>>, done |-> <<>>, threw |-> FALSE]

\* The callback of tasks.forEach in KanbanBoard's columns. threw: the call
\* grouped[status].push(task) raised a TypeError, which ends the forEach and
\* the render.
place(grouped, task) ==
  LET status == currentStatus(task) IN
  IF grouped.threw THEN grouped
  ELSE IF status \in KANBAN_COLUMNS THEN [grouped EXCEPT ![status] = Append(@, task)]
  ELSE IF status \in ObjectPrototype THEN [grouped EXCEPT !.threw = TRUE]
  ELSE [grouped EXCEPT !.todo = Append(@, task)]

\* KanbanBoard's columns for its tasks prop
RECURSIVE columns(_)
columns(list) ==
  IF list = <<>> THEN NoColumns
  ELSE place(columns(SubSeq(list, 1, Len(list) - 1)), list[Len(list)])

\* handleDeleteTask(id) up to its await (the user confirms); its closure
\* keeps the editingTaskId of the render it was created in
handleDeleteTask(id) ==
  /\ route = "tasks"
  /\ CanSend(1)
  /\ id # Null
  /\ isDeleting' = TRUE
  /\ sent' = sent + 1
  /\ reqs' = Issue(TaskReq("deleteTask", id, editingTaskId, NoPayload))
  /\ UNCHANGED <<appVars, serverVars, tasks, editingTaskId, taskError, isFormOpen,
                 taskSearch>>
  /\ UNCHANGED <<noteServerVars, notesVars, emailsVars, shellVars, boardVars, intervals>>
  /\ UNCHANGED pomodoroVars

\* The ids a delete button is rendered for: every visible row or card, and
\* the form's Delete button while it is enabled.
DeletableIds ==
  IdSet(VisibleTasks)
    \cup (IF isFormOpen /\ editingTaskId # Null /\ ~isDeleting
          THEN {editingTaskId} ELSE {})

\* loadTasks after its await; `then` = "closeForm" when handleSubmit awaited it
ResumeLoadTasks(r) ==
  /\ route = "tasks"
  /\ r.kind = "loadTasks"
  /\ \E resp \in Outcomes(r) : LET out == Settle(r, resp) IN
     /\ storage' = out.storage
     /\ tasks' = IF out.settled = "fulfilled" THEN SortByDue(out.value.body) ELSE tasks
     /\ IF r.then = "closeForm"
        THEN /\ editingTaskId' = Null
             /\ taskError' = NoError
             /\ isFormOpen' = FALSE
        ELSE /\ taskError' = IF out.settled = "fulfilled" THEN taskError
                             ELSE LoadTasksError
             /\ UNCHANGED <<editingTaskId, isFormOpen>>
  /\ reqs' = Release(r)
  /\ UNCHANGED <<route, isAuth, sent, serverVars, isDeleting, taskSearch>>
  /\ UNCHANGED <<noteServerVars, notesVars, emailsVars, shellVars, boardVars, intervals>>
  /\ UNCHANGED pomodoroVars

\* handleSubmit (create branch) after the POST: on success it awaits loadTasks
ResumeCreateTask(r) ==
  /\ route = "tasks"
  /\ r.kind = "createTask"
  /\ \E resp \in Outcomes(r) : LET out == Settle(r, resp) IN
     /\ storage' = out.storage
     /\ IF out.settled = "fulfilled"
        THEN /\ taskError' = NoError
             /\ reqs' = Release(r) (+) Sending(out.storage, {
                          Req("loadTasks", "/tasks/", Null, Null, NoPayload, "closeForm")})
        ELSE /\ taskError' = SaveTaskError(out.value)
             /\ reqs' = Release(r)
  /\ UNCHANGED <<route, isAuth, sent, serverVars, tasks, editingTaskId, isDeleting,
                 isFormOpen, taskSearch>>
  /\ UNCHANGED <<noteServerVars, notesVars, emailsVars, shellVars, boardVars, intervals>>
  /\ UNCHANGED pomodoroVars

\* handleSubmit (update branch) after the PATCH
ResumeUpdateTask(r) ==
  /\ route = "tasks"
  /\ r.kind = "updateTask"
  /\ \E resp \in Outcomes(r) : LET out == Settle(r, resp) IN
     /\ storage' = out.storage
     /\ IF out.settled = "fulfilled"
        THEN /\ tasks' = ReplaceById(prev(tasks, r.seen), r.id, out.value.body[1])
             /\ editingTaskId' = Null
             /\ taskError' = NoError
             /\ isFormOpen' = FALSE
        ELSE /\ taskError' = SaveTaskError(out.value)
             /\ UNCHANGED <<tasks, editingTaskId, isFormOpen>>
  /\ reqs' = Release(r)
  /\ UNCHANGED <<route, isAuth, sent, serverVars, isDeleting, taskSearch>>
  /\ UNCHANGED <<noteServerVars, notesVars, emailsVars, shellVars, boardVars, intervals>>
  /\ UNCHANGED pomodoroVars

\* handleToggleDone and handleKanbanUpdateTask after the PATCH
ResumePatchTask(r) ==
  /\ route = "tasks"
  /\ r.kind \in {"toggleTask", "kanbanTask"}
  /\ \E resp \in Outcomes(r) : LET out == Settle(r, resp) IN
     /\ storage' = out.storage
     /\ IF out.settled = "fulfilled"
        THEN /\ tasks' = ReplaceById(prev(tasks, r.seen), r.id, out.value.body[1])
             /\ UNCHANGED taskError
        ELSE /\ taskError' = UpdateTaskError(out.value)
             /\ UNCHANGED tasks
  /\ reqs' = Release(r)
  /\ UNCHANGED <<route, isAuth, sent, serverVars, editingTaskId, isDeleting, isFormOpen,
                 taskSearch>>
  /\ UNCHANGED <<noteServerVars, notesVars, emailsVars, shellVars, boardVars, intervals>>
  /\ UNCHANGED pomodoroVars

\* handleDeleteTask after the DELETE; `cap` is the editingTaskId its closure holds
ResumeDeleteTask(r) ==
  /\ route = "tasks"
  /\ r.kind = "deleteTask"
  /\ \E resp \in Outcomes(r) : LET out == Settle(r, resp) IN
     /\ storage' = out.storage
     /\ IF out.settled = "fulfilled"
        THEN /\ tasks' = RemoveById(prev(tasks, r.seen), r.id)
             /\ IF r.cap = r.id
                THEN /\ editingTaskId' = Null
                     /\ taskError' = NoError
                     /\ isFormOpen' = FALSE
                ELSE UNCHANGED <<editingTaskId, taskError, isFormOpen>>
        ELSE /\ taskError' = DeleteTaskError(out.value)
             /\ UNCHANGED <<tasks, editingTaskId, isFormOpen>>
  /\ isDeleting' = FALSE
  /\ reqs' = Release(r)
  /\ UNCHANGED <<route, isAuth, sent, serverVars, taskSearch>>
  /\ UNCHANGED <<noteServerVars, notesVars, emailsVars, shellVars, boardVars, intervals>>
  /\ UNCHANGED pomodoroVars

\* ---------------------------------- Tasks page: the calendar view's groups
startOfDay(t) == t - (t % TicksPerDay)
\* date.getDate() - date.getDay(): back to Sunday
startOfWeek(t) ==
  startOfDay(t) - ((startOfDay(t) \div TicksPerDay) % DaysPerWeek) * TicksPerDay
\* date.setDate(1)
startOfMonth(t) ==
  startOfDay(t) - ((startOfDay(t) \div TicksPerDay) % DaysPerMonth) * TicksPerDay

\* formatDayLabel(date), today being the day of NowStamp
formatDayLabel(t) ==
  LET diffDays == (startOfDay(t) - startOfDay(NowStamp)) \div TicksPerDay IN
  IF diffDays = 0 THEN <<"Today">>
  ELSE IF diffDays = 1 THEN <<"Tomorrow">>
  ELSE IF diffDays = -1 THEN <<"Yesterday">>
  ELSE <<"day", ToString(startOfDay(t) \div TicksPerDay)>>

noDateKey == [kind |-> "no_date", start |-> 0]

\* (a test that takes every non-empty due_date for a date)
hasDueText(t) == t.due_date # Null

\* the negation of `!d || Number.isNaN(d.getTime())`
hasDate(t) == t.due_date # Null /\ t.due_date # InvalidDue

\* The key and the label grouped gives the group of a task.
groupOf(t, mode) ==
  IF ~hasDate(t) THEN [key |-> noDateKey, label |-> <<"No due date">>]
  ELSE IF mode = "day"
  THEN [key |-> [kind |-> "day", start |-> startOfDay(t.due_date)],
        label |-> formatDayLabel(t.due_date)]
  ELSE IF mode = "week"
  THEN [key |-> [kind |-> "week", start |-> startOfWeek(t.due_date)],
        label |-> <<"Week of", ToString(startOfWeek(t.due_date))>>]
  ELSE [key |-> [kind |-> "month", start |-> startOfMonth(t.due_date)],
        label |-> <<"month", ToString(startOfMonth(t.due_date))>>]

\* groupsMap after filteredTasks.forEach has handled the first n tasks: a Map
\* keeps its keys in the order of their first insertion. An item's index is
\* the task's position in the filtered list.
RECURSIVE groupsMap(_, _, _)
groupsMap(list, mode, n) ==
  IF n = 0 THEN <<>>
  ELSE LET before == groupsMap(list, mode, n - 1)
           g == groupOf(list[n], mode)
           item == [task |-> list[n], index |-> n]
       IN IF \E i \in 1..Len(before) : before[i].key = g.key
          THEN [i \in 1..Len(before) |->
                  IF before[i].key = g.key
                  THEN [before[i] EXCEPT !.items = Append(@, item)]
                  ELSE before[i]]
          ELSE Append(before, [key |-> g.key, label |-> g.label, items |-> <<item>>])

\* (a comparator that puts later dates first)
compareGroupsDescending(a, b) ==
  IF a.key = noDateKey /\ b.key # noDateKey THEN 1
  ELSE IF b.key = noDateKey /\ a.key # noDateKey THEN -1
  ELSE LET aDated == SelectSeq(a.items, LAMBDA x : x.task.due_date # Null)
           bDated == SelectSeq(b.items, LAMBDA x : x.task.due_date # Null)
       IN IF aDated = <<>> /\ bDated = <<>> THEN 0
          ELSE IF aDated = <<>> THEN 1
          ELSE IF bDated = <<>> THEN -1
          ELSE IF aDated[1].task.due_date = InvalidDue
                  \/ bDated[1].task.due_date = InvalidDue THEN 0
          ELSE bDated[1].task.due_date - aDated[1].task.due_date

\* The comparator of groupsArr.sort. aFirst is the first item whose dateObj
\* is an object (Number.isNaN of a Date object is false, so an unparseable
\* date counts too); a difference with NaN is NaN, which sort reads as 0.
compareGroups(a, b) ==
  IF a.key = noDateKey /\ b.key # noDateKey THEN 1
  ELSE IF b.key = noDateKey /\ a.key # noDateKey THEN -1
  ELSE LET aDated == SelectSeq(a.items, LAMBDA x : x.task.due_date # Null)
           bDated == SelectSeq(b.items, LAMBDA x : x.task.due_date # Null)
       IN IF aDated = <<>> /\ bDated = <<>> THEN 0
          ELSE IF aDated = <<>> THEN 1
          ELSE IF bDated = <<>> THEN -1
          ELSE IF aDated[1].task.due_date = InvalidDue
                  \/ bDated[1].task.due_date = InvalidDue THEN 0
          ELSE aDated[1].task.due_date - bDated[1].task.due_date

\* Array.prototype.sort is stable.
RECURSIVE InsertGroup(_, _)
InsertGroup(sorted, g) ==
  IF sorted = <<>> THEN <<g>>
  ELSE IF compareGroups(sorted[Len(sorted)], g) > 0
       THEN InsertGroup(SubSeq(sorted, 1, Len(sorted) - 1), g) \o <<sorted[Len(sorted)]>>
       ELSE Append(sorted, g)

RECURSIVE SortGroups(_)
SortGroups(groups) ==
  IF groups = <<>> THEN <<>>
  ELSE InsertGroup(SortGroups(SubSeq(groups, 1, Len(groups) - 1)), groups[Len(groups)])

\* grouped (useMemo on [filteredTasks, groupMode])
grouped(list, mode) == SortGroups(groupsMap(list, mode, Len(list)))

\* the Day / Week / Month buttons
handleGroupModeChange(mode) ==
  /\ route = "tasks"
  /\ mode # groupMode
  /\ groupMode' = mode
  /\ UNCHANGED <<appVars, netVars, serverVars, tasksVars, dragIndex, dragTaskId>>
  /\ UNCHANGED <<noteServerVars, notesVars, emailsVars, shellVars, intervals>>
  /\ UNCHANGED pomodoroVars

\* handleDragStart(e, index) on a row of the list; rows carry their position
\* in the filtered list
handleDragStart(index) ==
  /\ route = "tasks"
  /\ dragIndex' = index
  /\ UNCHANGED <<appVars, netVars, serverVars, tasksVars, groupMode, dragTaskId>>
  /\ UNCHANGED <<noteServerVars, notesVars, emailsVars, shellVars, intervals>>
  /\ UNCHANGED pomodoroVars

\* The entry of an array that holds undefined.
undefined == Task(Null, <<>>, "", Null)

\* const [moved] = newTasks.splice(dragIndex, 1), then
\* newTasks.splice(dropIndex, 0, moved): beyond the end of the list splice
\* removes nothing and moved is undefined.
Moved(list, from, to) ==
  LET inList == from \in 1..Len(list)
      moved == IF inList THEN list[from] ELSE undefined
      rest == IF inList
              THEN SubSeq(list, 1, from - 1) \o SubSeq(list, from + 1, Len(list))
              ELSE list
      at == IF to - 1 > Len(rest) THEN Len(rest) ELSE to - 1
  IN SubSeq(rest, 1, at) \o <<moved>> \o SubSeq(rest, at + 1, Len(rest))

\* handleDrop(e, dropIndex) on a row, then the dragend event's
\* handleDragEndList
handleDrop(dropIndex) ==
  /\ route = "tasks"
  /\ tasks' = IF dragIndex = Null \/ dragIndex = dropIndex
              THEN tasks
              ELSE Moved(tasks, dragIndex, dropIndex)
  /\ dragIndex' = Null
  /\ UNCHANGED <<appVars, netVars, serverVars, editingTaskId, taskError, isDeleting,
                 isFormOpen, taskSearch, groupMode, dragTaskId>>
  /\ UNCHANGED <<noteServerVars, notesVars, emailsVars, shellVars, intervals>>
  /\ UNCHANGED pomodoroVars

\* The calendar view of a loaded cache with no request under way. From
\* dragstart to the drop the browser delivers no click and no key event.
CalendarNext ==
  \/ \E mode \in {"day", "week", "month"} :
       dragIndex = Null /\ handleGroupModeChange(mode)
  \/ \E q \in SearchInputs : dragIndex = Null /\ setSearchQuery(q)
  \/ \E i \in 1..Len(VisibleTasks) : handleDragStart(i)
  \/ \E i \in 1..Len(VisibleTasks) : handleDrop(i)

TasksNext ==
  \/ AddTaskClick
  \/ \E t \in VisibleTaskSet : handleSelectTask(t)
  \/ closeForm
  \/ \E q \in SearchInputs : setSearchQuery(q)
  \/ \E form \in FormInputs : handleSubmit(form)
  \/ \E t \in VisibleTaskSet : handleToggleDone(t)
  \/ \E id \in IdSet(VisibleTasks) : handleCardDragStart(id)
  \/ \E st \in KANBAN_COLUMNS : handleColumnDrop(st)
  \/ handleDragEnd
  \/ \E id \in DeletableIds : handleDeleteTask(id)
  \/ \E r \in InFlight : ServerAnswerTasks(r)
  \/ \E r \in InFlight : ResumeLoadTasks(r)
  \/ \E r \in InFlight : ResumeCreateTask(r)
  \/ \E r \in InFlight : ResumeUpdateTask(r)
  \/ \E r \in InFlight : ResumePatchTask(r)
  \/ \E r \in InFlight : ResumeDeleteTask(r)

\* ------------------------------------------------------- server: /notes/
Note(id, title, content, job, note_type) ==
  [id |-> id, title |-> title, content |-> content, job |-> job,
   note_type |-> note_type]

\* Eleven notes: more than one page. Notes 1..4 belong to job "x", note 5 has
\* a blank job; every third title is "B"; even ids are daily notes, odd ids
\* carry no note_type; note 1 has markup in its content.
InitialNote(i) ==
  Note(i,
       IF i % 3 = 0 THEN <<"B">> ELSE <<"a">>,
       IF i = 1 THEN <<"<", "b", ">", "a">> ELSE <<>>,
       IF i <= 4 THEN <<"x">> ELSE IF i = 5 THEN <<" ">> ELSE <<>>,
       IF i % 2 = 0 THEN "daily" ELSE "")

InitialServerNotes == [i \in 1..(MaxNotes - 1) |-> InitialNote(i)]

NoteFromPayload(id, p) == Note(id, p.title, p.content, p.job, p.note_type)

\* The server takes a request to /notes/ and answers it.
ServerAnswerNotes(r) ==
  /\ route = "notes"
  /\ r.phase = "sent"
  /\ \/ /\ r.kind = "loadNotes"
        /\ reqs' = Answer(r, Ok(serverNotes))
        /\ UNCHANGED noteServerVars
     \/ /\ r.kind = "createNote"
        /\ LET new == NoteFromPayload(serverNextNoteId, r.payload) IN
           /\ serverNotes' = Append(serverNotes, new)
           /\ serverNextNoteId' = serverNextNoteId + 1
           /\ reqs' = Answer(r, Ok(<<new>>))
     \/ /\ r.kind = "updateNote"
        /\ r.id \in IdSet(serverNotes)
        /\ LET new == NoteFromPayload(r.id, r.payload) IN
           /\ serverNotes' = ReplaceById(serverNotes, r.id, new)
           /\ reqs' = Answer(r, Ok(<<new>>))
        /\ UNCHANGED serverNextNoteId
     \/ /\ r.kind = "deleteNote"
        /\ r.id \in IdSet(serverNotes)
        /\ serverNotes' = RemoveById(serverNotes, r.id)
        /\ reqs' = Answer(r, Ok(<<>>))
        /\ UNCHANGED serverNextNoteId
     \/ /\ \E f \in Failures : reqs' = Answer(r, Fail(f))
        /\ UNCHANGED noteServerVars
  /\ UNCHANGED <<appVars, sent, notesVars>>
  /\ UNCHANGED <<serverVars, tasksVars, emailsVars, shellVars, boardVars, intervals>>
  /\ UNCHANGED pomodoroVars

\* ------------------------------------------------------ Notes page (Notes.jsx)
\* html.replace(/<[^>]+>/g, " "): a tag is "<", one or more characters other
\* than ">", then ">".
FirstClose(s) ==
  IF \E j \in 2..Len(s) : s[j] = ">"
  THEN CHOOSE j \in 2..Len(s) : s[j] = ">" /\ \A k \in 2..(j - 1) : s[k] # ">"
  ELSE 0

RECURSIVE stripHtml(_)
stripHtml(html) ==
  IF html = <<>> THEN <<>>
  ELSE IF Head(html) = "<" /\ FirstClose(html) >= 3
       THEN <<" ">> \o stripHtml(SubSeq(html, FirstClose(html) + 1, Len(html)))
       ELSE <<Head(html)>> \o stripHtml(Tail(html))

AllJobs == <<"a", "l", "l">>       \* the filter value "all"

\* allJobs: the distinct job values that are not blank
allJobs(list) ==
  {list[i].job : i \in {k \in 1..Len(list) : Len(trim(list[k].job)) > 0}}

\* filteredNotesAll
filteredNotesAll(list, job, type, query) ==
  LET q == toLowerCase(trim(query))
      keep(n) ==
        /\ job # AllJobs => trim(n.job) = job
        /\ type # "all" => (IF n.note_type = "" THEN "general" ELSE n.note_type) = type
        /\ q # <<>> => \/ includes(toLowerCase(n.title), q)
                       \/ includes(toLowerCase(stripHtml(n.content)), q)
  IN SelectSeq(list, keep)

\* (rounding down)
Floor(n, d) == n \div d
\* Math.ceil(n / d)
Ceil(n, d) == (n + d - 1) \div d
Min(a, b) == IF a < b THEN a ELSE b

FilteredNotes == filteredNotesAll(notes, jobFilter, typeFilter, noteSearch)

\* (the requested page taken as it is)
UnclampedPage(p, total) == p

\* Math.min(page, totalPages)
SafePage(p, total) == Min(p, total)

\* The pagination block of Notes' render, for a filtered list and a page.
NotesPagination(filtered, p) ==
  LET totalNotesCount == Len(filtered)
      totalPages == IF totalNotesCount # 0 THEN Ceil(totalNotesCount, pageSize) ELSE 1
      safePage == SafePage(p, totalPages)
      startIndex == IF totalNotesCount # 0 THEN (safePage - 1) * pageSize ELSE 0
      endIndex == IF totalNotesCount # 0
                  THEN Min(startIndex + pageSize, totalNotesCount) ELSE 0
  IN [totalNotesCount |-> totalNotesCount, totalPages |-> totalPages,
      safePage |-> safePage, startIndex |-> startIndex, endIndex |-> endIndex,
      \* filteredNotesAll.slice(startIndex, endIndex)
      pageNotes |-> IF totalNotesCount # 0
                    THEN SubSeq(filtered, startIndex + 1, endIndex) ELSE <<>>]

NotesView == NotesPagination(FilteredNotes, notePage)

\* The row the user clicks: the first of the displayed page.
ClickableRows(rows) ==
  IF rows = <<>> THEN {} ELSE {rows[1]}

NoteFormInputs ==
  {[title |-> <<"b">>, content |-> <<>>, job |-> <<"x">>, note_type |-> "daily"],
   [title |-> <<" ">>, content |-> <<>>, job |-> <<>>, note_type |-> "general"]}
NoteSearchInputs == {<<>>, <<"B", " ">>}
TypeFilters == {"all", "daily", "general"}

TitleRequired == <<"Title is required.">>
LoadNotesError == <<"Could not load notes. Check console for details.">>
\* the catch block of Notes' handleSubmit
SaveNoteError(resp) ==
  IF IsHttpError(resp)
  THEN HttpErrorText(resp.status, "while saving note:", resp.data)
  ELSE <<"Network error while saving note. Check console for details.">>
\* the catch block of handleDeleteNote
DeleteNoteError(resp) ==
  IF IsHttpError(resp)
  THEN HttpErrorText(resp.status, "while deleting note:", resp.data)
  ELSE <<"Network error while deleting note. Check console for details.">>

\* "New note": resetToNewNote()
resetToNewNote ==
  /\ route = "notes"
  /\ editingNoteId # Null
  /\ editingNoteId' = Null
  /\ UNCHANGED <<appVars, netVars, noteServerVars, notes, noteError, isSaving,
                 jobFilter, typeFilter, noteSearch, notePage>>
  /\ UNCHANGED <<serverVars, tasksVars, emailsVars, shellVars, boardVars, intervals>>
  /\ UNCHANGED pomodoroVars

\* handleSelectNote(n) for a row of the displayed page
handleSelectNote(n) ==
  /\ route = "notes"
  /\ editingNoteId' = n.id
  /\ UNCHANGED <<appVars, netVars, noteServerVars, notes, noteError, isSaving,
                 jobFilter, typeFilter, noteSearch, notePage>>
  /\ UNCHANGED <<serverVars, tasksVars, emailsVars, shellVars, boardVars, intervals>>
  /\ UNCHANGED pomodoroVars

\* (a job chip that leaves the page where it is)
setJobFilterKeepPage(job) ==
  /\ route = "notes"
  /\ job # jobFilter
  /\ jobFilter' = job
  /\ UNCHANGED <<appVars, netVars, noteServerVars, notes, editingNoteId, noteError,
                 isSaving, typeFilter, noteSearch, notePage>>
  /\ UNCHANGED <<serverVars, tasksVars, emailsVars, shellVars, boardVars, intervals>>
  /\ UNCHANGED pomodoroVars

\* The job chips: setJobFilter; the effect on [searchQuery, jobFilter,
\* typeFilter] then sets page 1.
setJobFilter(job) ==
  /\ route = "notes"
  /\ job # jobFilter
  /\ jobFilter' = job
  /\ notePage' = 1
  /\ UNCHANGED <<appVars, netVars, noteServerVars, notes, editingNoteId, noteError,
                 isSaving, typeFilter, noteSearch>>
  /\ UNCHANGED <<serverVars, tasksVars, emailsVars, shellVars, boardVars, intervals>>
  /\ UNCHANGED pomodoroVars

\* The type select: setTypeFilter, then the same effect.
setTypeFilter(type) ==
  /\ route = "notes"
  /\ type # typeFilter
  /\ typeFilter' = type
  /\ notePage' = 1
  /\ UNCHANGED <<appVars, netVars, noteServerVars, notes, editingNoteId, noteError,
                 isSaving, jobFilter, noteSearch>>
  /\ UNCHANGED <<serverVars, tasksVars, emailsVars, shellVars, boardVars, intervals>>
  /\ UNCHANGED pomodoroVars

\* The search box of Notes: setSearchQuery, then the same effect.
setNoteSearchQuery(q) ==
  /\ route = "notes"
  /\ q # noteSearch
  /\ noteSearch' = q
  /\ notePage' = 1
  /\ UNCHANGED <<appVars, netVars, noteServerVars, notes, editingNoteId, noteError,
                 isSaving, jobFilter, typeFilter>>
  /\ UNCHANGED <<serverVars, tasksVars, emailsVars, shellVars, boardVars, intervals>>
  /\ UNCHANGED pomodoroVars

\* handlePageChange(newPage, maxPage), as Previous / Next call it
handleNotePageChange(newPage, maxPage) ==
  /\ route = "notes"
  /\ ~(newPage < 1 \/ newPage > maxPage)
  /\ notePage' = newPage
  /\ UNCHANGED <<appVars, netVars, noteServerVars, notes, editingNoteId, noteError,
                 isSaving, jobFilter, typeFilter, noteSearch>>
  /\ UNCHANGED <<serverVars, tasksVars, emailsVars, shellVars, boardVars, intervals>>
  /\ UNCHANGED pomodoroVars

NotePayload(form) ==
  [title |-> form.title, content |-> form.content, job |-> form.job,
   note_type |-> form.note_type]

NoteCreatesInFlight ==
  Cardinality({r \in InFlight : r.kind = "createNote" /\ r.phase = "sent"})

\* Notes' handleSubmit up to its first await (the Save button is disabled
\* while isSaving)
handleSubmitNote(form) ==
  /\ route = "notes"
  /\ ~isSaving
  /\ IF trim(form.title) = <<>>
     THEN /\ noteError' = TitleRequired
          /\ UNCHANGED <<netVars, isSaving>>
     ELSE /\ noteError' = NoError
          /\ isSaving' = TRUE
          /\ CanSend(2)         \* the POST or PATCH and the reload after it
          /\ sent' = sent + 2
          /\ IF editingNoteId = Null
             THEN /\ serverNextNoteId + NoteCreatesInFlight <= MaxNotes
                  /\ reqs' = Issue(Req("createNote", "/notes/", Null, Null,
                                       NotePayload(form), ""))
             ELSE reqs' = Issue(Req("updateNote", "/notes/:id/",
                                    editingNoteId, Null, NotePayload(form), ""))
  /\ UNCHANGED <<appVars, noteServerVars, notes, editingNoteId, jobFilter,
                 typeFilter, noteSearch, notePage>>
  /\ UNCHANGED <<serverVars, tasksVars, emailsVars, shellVars, boardVars, intervals>>
  /\ UNCHANGED pomodoroVars

\* handleDeleteNote up to its await (the user confirms)
handleDeleteNote ==
  /\ route = "notes"
  /\ editingNoteId # Null
  /\ CanSend(1)
  /\ sent' = sent + 1
  /\ reqs' = Issue(Req("deleteNote", "/notes/:id/", editingNoteId, Null,
                       NoPayload, ""))
  /\ UNCHANGED <<appVars, noteServerVars, notesVars>>
  /\ UNCHANGED <<serverVars, tasksVars, emailsVars, shellVars, boardVars, intervals>>
  /\ UNCHANGED pomodoroVars

\* loadNotes after its await; `then` says which branch of handleSubmit
\* awaited it, and r.id is the editingNoteId of that handler's closure
ResumeLoadNotes(r) ==
  /\ route = "notes"
  /\ r.kind = "loadNotes"
  /\ \E resp \in Outcomes(r) : LET out == Settle(r, resp)
                                   data == IF out.settled = "fulfilled"
                                           THEN out.value.body ELSE <<>> IN
     /\ storage' = out.storage
     /\ notes' = IF out.settled = "fulfilled" THEN data ELSE notes
     /\ noteError' = IF out.settled = "fulfilled" THEN noteError ELSE LoadNotesError
     /\ IF r.then = "afterCreate"
        THEN editingNoteId' = Null /\ isSaving' = FALSE
        ELSE IF r.then = "afterUpdate"
        THEN /\ editingNoteId' = IF r.id \in IdSet(data) THEN editingNoteId ELSE Null
             /\ isSaving' = FALSE
        ELSE UNCHANGED <<editingNoteId, isSaving>>
  /\ reqs' = Release(r)
  /\ UNCHANGED <<route, isAuth, sent, noteServerVars, jobFilter, typeFilter,
                 noteSearch, notePage>>
  /\ UNCHANGED <<serverVars, tasksVars, emailsVars, shellVars, boardVars, intervals>>
  /\ UNCHANGED pomodoroVars

\* Notes' handleSubmit after the POST or PATCH: on success it awaits
\* loadNotes (which starts with setError(""))
ResumeSaveNote(r) ==
  /\ route = "notes"
  /\ r.kind \in {"createNote", "updateNote"}
  /\ \E resp \in Outcomes(r) : LET out == Settle(r, resp) IN
     /\ storage' = out.storage
     /\ IF out.settled = "fulfilled"
        THEN /\ noteError' = NoError
             /\ reqs' = Release(r) (+) Sending(out.storage, {
                  Req("loadNotes", "/notes/", r.id, Null, NoPayload,
                      IF r.kind = "createNote" THEN "afterCreate" ELSE "afterUpdate")})
             /\ UNCHANGED isSaving
        ELSE /\ noteError' = SaveNoteError(out.value)
             /\ isSaving' = FALSE
             /\ reqs' = Release(r)
  /\ UNCHANGED <<route, isAuth, sent, noteServerVars, notes, editingNoteId,
                 jobFilter, typeFilter, noteSearch, notePage>>
  /\ UNCHANGED <<serverVars, tasksVars, emailsVars, shellVars, boardVars, intervals>>
  /\ UNCHANGED pomodoroVars

\* handleDeleteNote after the DELETE
ResumeDeleteNote(r) ==
  /\ route = "notes"
  /\ r.kind = "deleteNote"
  /\ \E resp \in Outcomes(r) : LET out == Settle(r, resp) IN
     /\ storage' = out.storage
     /\ IF out.settled = "fulfilled"
        THEN /\ notes' = RemoveById(notes, r.id)
             /\ editingNoteId' = Null
             /\ UNCHANGED noteError
        ELSE /\ noteError' = DeleteNoteError(out.value)
             /\ UNCHANGED <<notes, editingNoteId>>
  /\ reqs' = Release(r)
  /\ UNCHANGED <<route, isAuth, sent, noteServerVars, isSaving, jobFilter,
                 typeFilter, noteSearch, notePage>>
  /\ UNCHANGED <<serverVars, tasksVars, emailsVars, shellVars, boardVars, intervals>>
  /\ UNCHANGED pomodoroVars

NotesNext ==
  LET view == NotesView IN
  \/ resetToNewNote
  \/ \E n \in ClickableRows(view.pageNotes) : handleSelectNote(n)
  \/ \E job \in {AllJobs} \cup allJobs(notes) : setJobFilter(job)
  \/ \E type \in TypeFilters : setTypeFilter(type)
  \/ \E q \in NoteSearchInputs : setNoteSearchQuery(q)
  \/ \E d \in {-1, 1} :
       /\ view.totalNotesCount > 0
       /\ IF d = -1 THEN view.safePage > 1 ELSE view.safePage < view.totalPages
       /\ handleNotePageChange(view.safePage + d, view.totalPages)
  \/ \E form \in NoteFormInputs : handleSubmitNote(form)
  \/ handleDeleteNote
  \/ \E r \in InFlight : ServerAnswerNotes(r)
  \/ \E r \in InFlight : ResumeLoadNotes(r)
  \/ \E r \in InFlight : ResumeSaveNote(r)
  \/ \E r \in InFlight : ResumeDeleteNote(r)

\* ---------------------------------------- server: /email-accounts/, /email-messages/
Account(id) == [id |-> id]
ServerAccounts == <<Account(1), Account(2)>>

\* sent_at as the server sends it: an ISO date, nothing, or text that is no date
IsoDate(y, m, d) == [text |-> "iso", y |-> y, m |-> m, d |-> d]
MissingDate == [text |-> "", y |-> 0, m |-> 0, d |-> 0]
InvalidDate == [text |-> "not a date", y |-> 0, m |-> 0, d |-> 0]
Now == IsoDate(2, 2, 2)

\* Message i of an inbox: today, this month, this year, another year, no date
\* and an unreadable date take turns.
SentAt(i) ==
  IF i % 6 = 0 THEN Now
  ELSE IF i % 6 = 1 THEN IsoDate(2, 2, 1)
  ELSE IF i % 6 = 2 THEN IsoDate(2, 1, 2)
  ELSE IF i % 6 = 3 THEN IsoDate(1, 2, 2)
  ELSE IF i % 6 = 4 THEN MissingDate
  ELSE InvalidDate

Message(account, i) == [id |-> account * 100 + i, sent_at |-> SentAt(i)]

\* The inbox of an account when it holds n messages; a search term keeps
\* every other message.
Inbox(account, n, q) ==
  LET all == [i \in 1..n |-> Message(account, i)] IN
  IF q = <<>> THEN all ELSE SelectSeq(all, LAMBDA m : m.id % 2 = 0)

\* The sizes an inbox has when the server reads it.
MsgCounts == {0, PAGE_SIZE + 1, MaxMsgs}

\* The server takes a request of the Emails page and answers it.
ServerAnswerEmails(r) ==
  /\ route = "emails"
  /\ r.phase = "sent"
  /\ \/ /\ r.kind = "loadAccounts"
        /\ \E list \in {<<>>, ServerAccounts} : reqs' = Answer(r, Ok(list))
     \/ /\ r.kind = "fetchMessages"
        /\ \E n \in MsgCounts : reqs' = Answer(r, Ok(Inbox(r.id, n, r.payload.q)))
     \/ /\ r.kind = "sync"
        /\ reqs' = Answer(r, Ok(<<>>))
     \/ \E f \in Failures : reqs' = Answer(r, Fail(f))
  /\ UNCHANGED <<appVars, sent, emailsVars>>
  /\ UNCHANGED <<serverVars, tasksVars, noteServerVars, notesVars, shellVars, boardVars, intervals>>
  /\ UNCHANGED pomodoroVars

\* ---------------------------------------------------- Emails page (Emails.jsx)
isSameDay(d) == d.y = Now.y /\ d.m = Now.m /\ d.d = Now.d
isSameMonthOfAnyYear(d) == d.m = Now.m
isSameMonth(d) == d.y = Now.y /\ d.m = Now.m
isSameYear(d) == d.y = Now.y

\* filteredMessages (useMemo on [messages, dateMode])
filteredMessages(list, mode) ==
  LET keep(m) ==
        IF mode = "all" THEN TRUE
        ELSE IF m.sent_at.text = "" THEN FALSE
        ELSE IF m.sent_at.text # "iso" THEN FALSE   \* Number.isNaN(d.getTime())
        ELSE IF mode = "day" THEN isSameDay(m.sent_at)
        ELSE IF mode = "month" THEN isSameMonth(m.sent_at)
        ELSE IF mode = "year" THEN isSameYear(m.sent_at)
        ELSE TRUE
  IN IF list = <<>> THEN <<>> ELSE SelectSeq(list, keep)

\* The pagination block of Emails' render, for a filtered list and a page.
EmailsPagination(filtered, p) ==
  LET filteredCount == Len(filtered)
      totalPages == IF filteredCount # 0 THEN Ceil(filteredCount, PAGE_SIZE) ELSE 1
      safePage == Min(p, totalPages)
      startIndex == IF filteredCount # 0 THEN (safePage - 1) * PAGE_SIZE ELSE 0
      endIndex == IF filteredCount # 0
                  THEN Min(startIndex + PAGE_SIZE, filteredCount) ELSE 0
  IN [filteredCount |-> filteredCount, totalPages |-> totalPages,
      safePage |-> safePage, startIndex |-> startIndex, endIndex |-> endIndex,
      \* filteredMessages.slice(startIndex, endIndex)
      pagedMessages |-> IF filteredCount # 0
                        THEN SubSeq(filtered, startIndex + 1, endIndex) ELSE <<>>]

FilteredMessages == filteredMessages(messages, dateMode)
EmailsView == EmailsPagination(FilteredMessages, page)

\* (a monitor that keeps whatever is selected)
KeepSelection(sel, view, filtered) == [selectedMessage |-> sel, viewMode |-> view]

\* (an effect that drops the selection and leaves the view as it is)
ClearSelectionOnly(sel, view, filtered) ==
  IF sel = Null \/ sel \in IdSet(filtered)
  THEN [selectedMessage |-> sel, viewMode |-> view]
  ELSE [selectedMessage |-> Null, viewMode |-> view]

\* The effect on [filteredMessages]: a selection that is no longer in the
\* filtered list is dropped and the page goes back to the list.
SelectionMonitor(sel, view, filtered) ==
  IF sel = Null THEN [selectedMessage |-> sel, viewMode |-> view]
  ELSE IF sel \in IdSet(filtered) THEN [selectedMessage |-> sel, viewMode |-> view]
  ELSE [selectedMessage |-> Null, viewMode |-> "list"]

currentAccount ==
  IF selectedAccountId \in IdSet(accounts) THEN selectedAccountId ELSE Null

EmailSearchInputs == {<<>>, <<"b", " ">>}
DateModes == {"all", "day", "month", "year"}

LoadAccountsError == <<"Could not load email accounts. Check console for details.">>
LoadEmailsError == <<"Could not load emails. Check console for details.">>
SyncError == <<"Sync call failed (see console for details).">>

\* fetchMessages(accountId, currentSearch) up to its await, for an account
FetchRequest(accountId, currentSearch) ==
  Req("fetchMessages", "/email-messages/", accountId, Null,
      [q |-> trim(currentSearch)], "")

\* loadAccounts after its await. The first account becomes the selected one
\* (the closure's selectedAccountId is the null of the mount), and the
\* effects on selectedAccountId set page 1 and fetch its messages.
ResumeLoadAccounts(r) ==
  /\ route = "emails"
  /\ r.kind = "loadAccounts"
  /\ \E resp \in Outcomes(r) : LET out == Settle(r, resp) IN
     /\ storage' = out.storage
     /\ IF out.settled = "fulfilled"
        THEN /\ accounts' = out.value.body
             /\ UNCHANGED emailError
             /\ IF out.value.body # <<>> /\ out.value.body[1].id # selectedAccountId
                THEN /\ selectedAccountId' = out.value.body[1].id
                     /\ page' = 1
                     /\ loadingMessages' = TRUE
                     /\ reqs' = Release(r) (+)
                                Sending(out.storage, {FetchRequest(out.value.body[1].id, search)})
                ELSE /\ reqs' = Release(r)
                     /\ UNCHANGED <<selectedAccountId, page, loadingMessages>>
        ELSE /\ emailError' = LoadAccountsError
             /\ reqs' = Release(r)
             /\ UNCHANGED <<accounts, selectedAccountId, page, loadingMessages>>
  /\ UNCHANGED <<route, isAuth, sent, messages, selectedMessage, search, dateMode,
                 viewMode>>
  /\ UNCHANGED <<serverVars, tasksVars, noteServerVars, notesVars, shellVars, boardVars>>
  /\ intervals' = AutoSyncEffect(intervals, currentAccount', search')
  /\ UNCHANGED pomodoroVars

\* handleAccountClick(accountId); a new account triggers the effects on
\* selectedAccountId: page 1 and fetchMessages
handleAccountClick(accountId) ==
  /\ route = "emails"
  /\ viewMode = "list"
  /\ selectedAccountId' = accountId
  /\ selectedMessage' = Null
  /\ viewMode' = "list"
  /\ IF accountId # selectedAccountId
     THEN /\ CanSend(1)
          /\ sent' = sent + 1
          /\ page' = 1
          /\ loadingMessages' = TRUE
          /\ emailError' = NoError
          /\ reqs' = Issue(FetchRequest(accountId, search))
     ELSE UNCHANGED <<netVars, page, loadingMessages, emailError>>
  /\ UNCHANGED <<appVars, accounts, messages, search, dateMode>>
  /\ UNCHANGED <<serverVars, tasksVars, noteServerVars, notesVars, shellVars, boardVars>>
  /\ intervals' = AutoSyncEffect(intervals, currentAccount', search')
  /\ UNCHANGED pomodoroVars

\* handleSearchChange; the effects on search set page 1 and call
\* fetchMessages, which empties the list when no account is selected
handleSearchChange(text) ==
  /\ route = "emails"
  /\ viewMode = "list"
  /\ text # search
  /\ search' = text
  /\ page' = 1
  /\ IF selectedAccountId = Null
     THEN /\ messages' = <<>>
          /\ selectedMessage' = Null
          /\ UNCHANGED <<netVars, loadingMessages, emailError>>
     ELSE /\ CanSend(1)
          /\ sent' = sent + 1
          /\ loadingMessages' = TRUE
          /\ emailError' = NoError
          /\ reqs' = Issue(FetchRequest(selectedAccountId, text))
          /\ UNCHANGED <<messages, selectedMessage>>
  /\ UNCHANGED <<appVars, accounts, selectedAccountId, dateMode, viewMode>>
  /\ UNCHANGED <<serverVars, tasksVars, noteServerVars, notesVars, shellVars, boardVars>>
  /\ intervals' = AutoSyncEffect(intervals, currentAccount', search')
  /\ UNCHANGED pomodoroVars

\* handleDateModeChange(mode); the effects on dateMode and on
\* filteredMessages follow
handleDateModeChange(mode) ==
  /\ route = "emails"
  /\ viewMode = "list"
  /\ mode # dateMode
  /\ dateMode' = mode
  /\ page' = 1
  /\ LET after == SelectionMonitor(selectedMessage, viewMode,
                                   filteredMessages(messages, mode)) IN
     /\ selectedMessage' = after.selectedMessage
     /\ viewMode' = after.viewMode
  /\ UNCHANGED <<appVars, netVars, accounts, selectedAccountId, messages, search,
                 loadingMessages, emailError>>
  /\ UNCHANGED <<serverVars, tasksVars, noteServerVars, notesVars, shellVars, boardVars, intervals>>
  /\ UNCHANGED pomodoroVars

\* handleSelectMessage(msg) for a row of the displayed page
handleSelectMessage(msg) ==
  /\ route = "emails"
  /\ viewMode = "list"
  /\ selectedMessage' = msg.id
  /\ viewMode' = "detail"
  /\ UNCHANGED <<appVars, netVars, accounts, selectedAccountId, messages, search,
                 dateMode, page, loadingMessages, emailError>>
  /\ UNCHANGED <<serverVars, tasksVars, noteServerVars, notesVars, shellVars, boardVars, intervals>>
  /\ UNCHANGED pomodoroVars

\* "Back to message list": setViewMode("list")
BackToList ==
  /\ route = "emails"
  /\ viewMode = "detail"
  /\ viewMode' = "list"
  /\ UNCHANGED <<appVars, netVars, accounts, selectedAccountId, messages,
                 selectedMessage, search, dateMode, page, loadingMessages, emailError>>
  /\ UNCHANGED <<serverVars, tasksVars, noteServerVars, notesVars, shellVars, boardVars, intervals>>
  /\ UNCHANGED pomodoroVars

\* Emails' handlePageChange(newPage), as Previous / Next call it
handlePageChange(newPage, totalPages) ==
  /\ route = "emails"
  /\ viewMode = "list"
  /\ ~(newPage < 1 \/ newPage > totalPages)
  /\ page' = newPage
  /\ UNCHANGED <<appVars, netVars, accounts, selectedAccountId, messages,
                 selectedMessage, search, dateMode, loadingMessages, emailError,
                 viewMode>>
  /\ UNCHANGED <<serverVars, tasksVars, noteServerVars, notesVars, shellVars, boardVars, intervals>>
  /\ UNCHANGED pomodoroVars

\* handleSync(silent) up to its first await, with the currentAccount and the
\* search of the render its closure belongs to: "Sync now" (list view) calls
\* the current render's, a tick of the auto-sync interval the one its timer
\* was set with
handleSync(silent, account, q) ==
  /\ route = "emails"
  /\ account # Null
  /\ silent \/ viewMode = "list"
  \* "Sync now" is budgeted with the fetch that follows its POST
  /\ IF silent
     THEN CanSend(1) /\ sent' = sent + 1
     ELSE CanSend(2) /\ sent' = sent + 2
  /\ reqs' = Issue(Req("sync", "/email-accounts/:id/sync/", account, Null,
                       [q |-> q], IF silent THEN "silent" ELSE "manual"))
  /\ UNCHANGED <<appVars, emailsVars>>
  /\ UNCHANGED <<serverVars, tasksVars, noteServerVars, notesVars, shellVars, boardVars, intervals>>
  /\ UNCHANGED pomodoroVars

\* The user leaves /emails: Emails unmounts, the cleanup of its auto-sync
\* effect clears the interval and the component's state is gone (a later
\* mount starts from the initial state). Responses still to come find no
\* component to update.
UnmountEmails ==
  /\ route = "emails"
  /\ route' = "home"
  /\ intervals' = intervals \ EmailTimers
  /\ accounts' = <<>>
  /\ selectedAccountId' = Null
  /\ messages' = <<>>
  /\ selectedMessage' = Null
  /\ search' = <<>>
  /\ dateMode' = "all"
  /\ page' = 1
  /\ loadingMessages' = FALSE
  /\ emailError' = NoError
  /\ viewMode' = "list"
  /\ UNCHANGED <<storage, isAuth, netVars>>
  /\ UNCHANGED <<serverVars, tasksVars, noteServerVars, notesVars, shellVars, boardVars>>
  /\ UNCHANGED pomodoroVars

\* handleSync after the POST: on success it awaits fetchMessages for the
\* account and the search text of its closure; the request of that
\* fetchMessages keeps, as `then`, which handleSync awaits it
ResumeSync(r) ==
  /\ route = "emails"
  /\ r.kind = "sync"
  /\ \E resp \in Outcomes(r) : LET out == Settle(r, resp) IN
     /\ storage' = out.storage
     /\ IF out.settled = "fulfilled"
        THEN /\ loadingMessages' = TRUE
             /\ emailError' = NoError
             /\ reqs' = Release(r) (+)
                  Sending(out.storage,
                          {[FetchRequest(r.id, r.payload.q) EXCEPT !.then = r.then]})
        ELSE /\ emailError' = IF r.then = "silent" THEN emailError ELSE SyncError
             /\ reqs' = Release(r)
             /\ UNCHANGED loadingMessages
  /\ UNCHANGED <<route, isAuth, sent, accounts, selectedAccountId, messages,
                 selectedMessage, search, dateMode, page, viewMode>>
  /\ UNCHANGED <<serverVars, tasksVars, noteServerVars, notesVars, shellVars, boardVars, intervals>>
  /\ UNCHANGED pomodoroVars

\* fetchMessages after its await; a new list triggers the effect on
\* filteredMessages
ResumeFetchMessages(r) ==
  /\ route = "emails"
  /\ r.kind = "fetchMessages"
  /\ \E resp \in Outcomes(r) : LET out == Settle(r, resp) IN
     /\ storage' = out.storage
     /\ IF out.settled = "fulfilled"
        THEN /\ messages' = out.value.body
             /\ LET after == SelectionMonitor(selectedMessage, viewMode,
                                filteredMessages(out.value.body, dateMode)) IN
                /\ selectedMessage' = after.selectedMessage
                /\ viewMode' = after.viewMode
             /\ UNCHANGED emailError
        ELSE /\ emailError' = LoadEmailsError
             /\ UNCHANGED <<messages, selectedMessage, viewMode>>
  /\ loadingMessages' = FALSE
  /\ reqs' = Release(r)
  /\ UNCHANGED <<route, isAuth, sent, accounts, selectedAccountId, search, dateMode,
                 page>>
  /\ UNCHANGED <<serverVars, tasksVars, noteServerVars, notesVars, shellVars, boardVars, intervals>>
  /\ UNCHANGED pomodoroVars

EmailsNext ==
  LET view == EmailsView IN
  \/ \E a \in IdSet(accounts) : handleAccountClick(a)
  \/ \E text \in EmailSearchInputs : handleSearchChange(text)
  \/ \E mode \in DateModes : handleDateModeChange(mode)
  \/ \E m \in ClickableRows(view.pagedMessages) : handleSelectMessage(m)
  \/ BackToList
  \/ \E d \in {-1, 1} :
       /\ view.filteredCount > 0
       /\ IF d = -1 THEN view.safePage > 1 ELSE view.safePage < view.totalPages
       /\ handlePageChange(view.safePage + d, view.totalPages)
  \/ handleSync(FALSE, currentAccount, search)
  \/ \E tm \in EmailTimers : handleSync(TRUE, tm.account, tm.q)
  \/ UnmountEmails
  \/ \E r \in InFlight : ServerAnswerEmails(r)
  \/ \E r \in InFlight : ResumeLoadAccounts(r)
  \/ \E r \in InFlight : ResumeSync(r)
  \/ \E r \in InFlight : ResumeFetchMessages(r)

\* ------------------------------ server: /token/, /users/me/, unread count, /logout/
IssuedTokens == [access |-> "access-token", refresh |-> "refresh-token"]
\* /token/ answers 200 with both tokens, or with one of them missing
TokenBodies ==
  {IssuedTokens, [access |-> "access-token", refresh |-> NoToken],
   [access |-> "access-token-2", refresh |-> "refresh-token-2"]}
\* /token/ also fails with a status that is neither 400 nor 401
LoginFailures ==
  Failures \cup {[status |-> 500, data |-> [isString |-> TRUE, text |-> "server error"]]}

ServerAnswerShell(r) ==
  /\ route \in {"home", "login"}
  /\ r.phase = "sent"
  /\ \/ /\ r.kind = "login"
        /\ \/ \E t \in TokenBodies : reqs' = Answer(r, Ok(<<t>>))
           \/ \E f \in LoginFailures : reqs' = Answer(r, Fail(f))
     \/ /\ r.kind = "fetchUser"
        /\ reqs' = Answer(r, Ok(<<"alice">>))
     \/ /\ r.kind = "fetchUnreadCount"
        /\ \E body \in {<<>>, <<1>>} : reqs' = Answer(r, Ok(body))
     \/ /\ r.kind = "logout"
        /\ reqs' = Answer(r, Ok(<<>>))
     \/ /\ r.kind # "login"
        /\ \E f \in Failures : reqs' = Answer(r, Fail(f))
  /\ UNCHANGED <<appVars, sent, shellVars>>
  /\ UNCHANGED <<serverVars, tasksVars, noteServerVars, notesVars, emailsVars, boardVars, intervals>>
  /\ UNCHANGED pomodoroVars

\* --------------------------------------- App, Layout, Login (App.jsx, Layout.jsx)
NoUser == ""
InvalidCredentials == <<"Invalid username or password.">>
TokensMissing == <<"Login succeeded but tokens were not returned as expected.">>
\* the catch block of Login's handleSubmit
LoginError(resp) ==
  IF IsHttpError(resp)
  THEN IF resp.status = 401 \/ resp.status = 400 THEN InvalidCredentials
       ELSE <<"Login failed with status", ToString(resp.status)>> \o RenderData(resp.data)
  ELSE <<"Network error while trying to log in. Check the browser console for details.">>
UserError == <<"Could not load user info">>

\* What Layout's mount effects send: fetchUser and the first fetchUnreadCount.
FetchUserRequest == Req("fetchUser", "/users/me/", Null, Null, NoPayload, "")
UnreadCountRequest ==
  Req("fetchUnreadCount", "/email-messages/unread-count/", Null, Null, NoPayload, "")
LayoutMountRequests(st) == Sending(st, {FetchUserRequest, UnreadCountRequest})

\* Login's handleSubmit up to its await
LoginSubmit ==
  /\ route = "login"
  /\ CanSend(1)
  /\ sent' = sent + 1
  /\ loginError' = NoError
  /\ reqs' = Issue(Req("login", "/token/", Null, Null, NoPayload, ""))
  /\ UNCHANGED <<appVars, currentUser, userError, emailUnreadCount>>
  /\ UNCHANGED <<serverVars, tasksVars, noteServerVars, notesVars, emailsVars, boardVars, intervals>>
  /\ UNCHANGED pomodoroVars

\* Login's handleSubmit after the POST. onLogin is App's handleLoginSuccess:
\* setIsAuth(true) and navigate("/"); Layout mounts when isAuth turns true.
ResumeLogin(r) ==
  /\ route \in {"home", "login"}
  /\ r.kind = "login"
  /\ \E resp \in Outcomes(r) : LET out == Settle(r, resp) IN
     IF out.settled = "fulfilled" /\ out.value.body[1].access # NoToken
                                  /\ out.value.body[1].refresh # NoToken
     THEN /\ storage' = Tokens(out.value.body[1].access, out.value.body[1].refresh)
          /\ isAuth' = TRUE
          /\ route' = "home"
          /\ loginError' = NoError
          /\ IF isAuth
             THEN /\ reqs' = Release(r)
                  /\ UNCHANGED <<currentUser, userError, emailUnreadCount>>
             ELSE /\ reqs' = Release(r) (+) LayoutMountRequests(storage')
                  /\ currentUser' = NoUser
                  /\ userError' = NoError
                  /\ emailUnreadCount' = 0
          /\ intervals' = intervals \cup {LayoutTimer}
     ELSE /\ storage' = out.storage
          /\ loginError' = IF route # "login" THEN loginError
                           ELSE IF out.settled = "fulfilled" THEN TokensMissing
                           ELSE LoginError(out.value)
          /\ reqs' = Release(r)
          /\ UNCHANGED <<route, isAuth, currentUser, userError, emailUnreadCount,
                         intervals>>
  /\ UNCHANGED sent
  /\ UNCHANGED <<serverVars, tasksVars, noteServerVars, notesVars, emailsVars, boardVars>>
  /\ UNCHANGED pomodoroVars

\* Layout's fetchUser after its await
ResumeFetchUser(r) ==
  /\ route \in {"home", "login"}
  /\ r.kind = "fetchUser"
  /\ \E resp \in Outcomes(r) : LET out == Settle(r, resp) IN
     /\ storage' = out.storage
     /\ IF out.settled = "fulfilled"
        THEN currentUser' = out.value.body[1] /\ UNCHANGED userError
        ELSE userError' = UserError /\ UNCHANGED currentUser
  /\ reqs' = Release(r)
  /\ UNCHANGED <<route, isAuth, sent, loginError, emailUnreadCount>>
  /\ UNCHANGED <<serverVars, tasksVars, noteServerVars, notesVars, emailsVars, boardVars, intervals>>
  /\ UNCHANGED pomodoroVars

\* A tick of Layout's 60 s interval: fetchUnreadCount up to its await
PollUnreadCount ==
  /\ route \in {"home", "login"}
  /\ LayoutTimer \in intervals
  /\ BagCardinality(reqs) < MaxInflight
  /\ reqs' = Issue(UnreadCountRequest)
  /\ UNCHANGED <<appVars, sent, shellVars>>
  /\ UNCHANGED <<serverVars, tasksVars, noteServerVars, notesVars, emailsVars, boardVars, intervals>>
  /\ UNCHANGED pomodoroVars

\* fetchUnreadCount after its await: res.data?.unread ?? 0; errors are silent
ResumeUnreadCount(r) ==
  /\ route \in {"home", "login"}
  /\ r.kind = "fetchUnreadCount"
  /\ \E resp \in Outcomes(r) : LET out == Settle(r, resp) IN
     /\ storage' = out.storage
     /\ emailUnreadCount' =
          IF out.settled = "fulfilled"
          THEN (IF out.value.body = <<>> THEN 0 ELSE out.value.body[1])
          ELSE emailUnreadCount
  /\ reqs' = Release(r)
  /\ UNCHANGED <<route, isAuth, sent, loginError, currentUser, userError>>
  /\ UNCHANGED <<serverVars, tasksVars, noteServerVars, notesVars, emailsVars, boardVars, intervals>>
  /\ UNCHANGED pomodoroVars

\* Layout's handleLogout up to its await
handleLogout ==
  /\ route \in {"home", "login"}
  /\ isAuth
  /\ CanSend(1)
  /\ sent' = sent + 1
  /\ reqs' = Issue(Req("logout", "/logout/", Null, Null, NoPayload, ""))
  /\ UNCHANGED <<appVars, shellVars>>
  /\ UNCHANGED <<serverVars, tasksVars, noteServerVars, notesVars, emailsVars, boardVars, intervals>>
  /\ UNCHANGED pomodoroVars

\* handleLogout after the POST: its failure is ignored; the finally block
\* removes both tokens and navigates to /login
ResumeLogout(r) ==
  /\ route \in {"home", "login"}
  /\ r.kind = "logout"
  /\ \E resp \in Outcomes(r) : LET out == Settle(r, resp) IN
     storage' = removeItem(removeItem(out.storage, "access"), "refresh")
  /\ route' = "login"
  /\ loginError' = IF route = "login" THEN loginError ELSE NoError
  /\ reqs' = Release(r)
  /\ UNCHANGED <<isAuth, sent, currentUser, userError, emailUnreadCount>>
  /\ UNCHANGED <<serverVars, tasksVars, noteServerVars, notesVars, emailsVars, boardVars, intervals>>
  /\ UNCHANGED pomodoroVars

\* What the program does by itself: the server's answers, the handlers
\* resuming, the interval's ticks.
AppProgress ==
  \/ \E r \in InFlight : ServerAnswerShell(r)
  \/ \E r \in InFlight : ResumeLogin(r)
  \/ \E r \in InFlight : ResumeFetchUser(r)
  \/ \E r \in InFlight : ResumeUnreadCount(r)
  \/ \E r \in InFlight : ResumeLogout(r)
  \/ PollUnreadCount

AppNext ==
  \/ LoginSubmit
  \/ handleLogout
  \/ PollUnreadCount
  \/ \E r \in InFlight : ServerAnswerShell(r)
  \/ \E r \in InFlight : ResumeLogin(r)
  \/ \E r \in InFlight : ResumeFetchUser(r)
  \/ \E r \in InFlight : ResumeUnreadCount(r)
  \/ \E r \in InFlight : ResumeLogout(r)

\* --------------------------------------- Pomodoro hook (Calendar.jsx, usePomodoro)
\* const pomodoro = usePomodoro(25)
initialMinutes == 25
\* what an interval's callback sees of the render that started it
Closure(m) == [minutes |-> m]

\* (an effect whose dependency array holds running alone)
EffectOnRunningOnly(interval, deps, newDeps) ==
  IF deps.running = newDeps.running THEN interval
  ELSE IF newDeps.running THEN {Closure(newDeps.minutes)} ELSE {}

\* useEffect(..., [running, minutes]): when neither changed the interval
\* stays; otherwise the cleanup clears it and the effect starts a new one
\* if running.
PomodoroEffect(interval, deps, newDeps) ==
  IF deps = newDeps THEN interval
  ELSE IF newDeps.running THEN {Closure(newDeps.minutes)} ELSE {}

PomodoroDeps == [running |-> running, minutes |-> minutes]
AfterRender ==
  pomodoroInterval' = PomodoroEffect(pomodoroInterval, PomodoroDeps, PomodoroDeps')

InitPomodoro ==
  /\ minutes = initialMinutes
  /\ seconds = 0
  /\ running = FALSE
  /\ pomodoroInterval = {}

\* The interval's callback: setSeconds with its updater, which reads the
\* minutes of the callback's closure.
tick(cl) ==
  /\ route = "calendar"
  /\ cl \in pomodoroInterval
  /\ IF seconds = 0
     THEN IF cl.minutes = 0
          THEN running' = FALSE /\ seconds' = 0 /\ UNCHANGED minutes
          ELSE minutes' = minutes - 1 /\ seconds' = 59 /\ UNCHANGED running
     ELSE seconds' = seconds - 1 /\ UNCHANGED <<minutes, running>>
  /\ AfterRender
  /\ UNCHANGED <<appVars, netVars, shellVars>>
  /\ UNCHANGED <<serverVars, tasksVars, noteServerVars, notesVars, emailsVars, boardVars, intervals>>

toggle ==
  /\ route = "calendar"
  /\ running' = ~running
  /\ UNCHANGED <<minutes, seconds>>
  /\ AfterRender
  /\ UNCHANGED <<appVars, netVars, shellVars>>
  /\ UNCHANGED <<serverVars, tasksVars, noteServerVars, notesVars, emailsVars, boardVars, intervals>>

reset ==
  /\ route = "calendar"
  /\ running' = FALSE
  /\ minutes' = initialMinutes
  /\ seconds' = 0
  /\ AfterRender
  /\ UNCHANGED <<appVars, netVars, shellVars>>
  /\ UNCHANGED <<serverVars, tasksVars, noteServerVars, notesVars, emailsVars, boardVars, intervals>>

PomodoroNext ==
  \/ toggle
  \/ reset
  \/ \E cl \in pomodoroInterval : tick(cl)

\* ------------------------------------------------------------------- init
InitApp ==
  /\ storage = Tokens("access-token", "refresh-token")
  /\ isAuth = (storage.access # NoToken)
  /\ intervals = IF isAuth THEN {LayoutTimer} ELSE {}

\* Tasks mounts with an empty cache; its mount effect calls loadTasks.
InitTasks ==
  /\ tasks = <<>>
  /\ editingTaskId = Null
  /\ taskError = NoError
  /\ isDeleting = FALSE
  /\ isFormOpen = FALSE
  /\ taskSearch = <<>>
  /\ groupMode = "day"
  /\ dragIndex = Null
  /\ dragTaskId = Null

\* Notes mounts with an empty cache, no selection, no filter, page 1; its
\* mount effect calls loadNotes.
InitNotes ==
  /\ notes = <<>>
  /\ editingNoteId = Null
  /\ noteError = NoError
  /\ isSaving = FALSE
  /\ jobFilter = AllJobs
  /\ typeFilter = "all"
  /\ noteSearch = <<>>
  /\ notePage = 1

\* Emails mounts with nothing loaded; its mount effects set page 1, run
\* fetchMessages(null, "") and call loadAccounts.
InitEmails ==
  /\ accounts = <<>>
  /\ selectedAccountId = Null
  /\ messages = <<>>
  /\ selectedMessage = Null
  /\ search = <<>>
  /\ dateMode = "all"
  /\ page = 1
  /\ loadingMessages = FALSE
  /\ emailError = NoError
  /\ viewMode = "list"

\* Layout and Login mount with nothing loaded and no error.
InitShell ==
  /\ loginError = NoError
  /\ currentUser = NoUser
  /\ userError = NoError
  /\ emailUnreadCount = 0

InitServer ==
  /\ serverTasks = InitialServerTasks
  /\ serverNextTaskId = Len(InitialServerTasks) + 1
  /\ serverNotes = InitialServerNotes
  /\ serverNextNoteId = Len(InitialServerNotes) + 1

\* Every page's state as it is when the page mounts.
InitPages == InitTasks /\ InitNotes /\ InitEmails /\ InitShell /\ InitPomodoro

\* App renders <Tasks/>: the mount effect's loadTasks is in flight.
TasksInit ==
  /\ route = "tasks"
  /\ InitApp /\ InitServer /\ InitPages
  /\ reqs = Sending(storage, {Req("loadTasks", "/tasks/", Null, Null, NoPayload, "")})
  /\ sent = 0

SpecTasks == TasksInit /\ [][TasksNext]_vars

\* The list of the calendar view while requests are under way: rows are
\* dragged and dropped, deleted and toggled, and responses arrive. From
\* dragstart to the drop the browser delivers no click.
ListNext ==
  \/ \E i \in 1..Len(VisibleTasks) : handleDragStart(i)
  \/ \E i \in 1..Len(VisibleTasks) : handleDrop(i)
  \/ \E t \in VisibleTaskSet : dragIndex = Null /\ handleToggleDone(t)
  \/ \E id \in IdSet(VisibleTasks) : dragIndex = Null /\ handleDeleteTask(id)
  \/ \E r \in InFlight : ServerAnswerTasks(r)
  \/ \E r \in InFlight : ResumeLoadTasks(r)
  \/ \E r \in InFlight : ResumePatchTask(r)
  \/ \E r \in InFlight : ResumeDeleteTask(r)

SpecTasksList == TasksInit /\ [][ListNext]_vars

\* Tasks after a successful create from the form: the two tasks of the first
\* load are in the cache, the server holds the new task as well, and the
\* reload handleSubmit awaits is in flight.
ReloadInit ==
  /\ route = "tasks"
  /\ InitApp /\ InitNotes /\ InitEmails /\ InitShell /\ InitPomodoro
  /\ serverTasks = Append(InitialServerTasks,
                          Task(Len(InitialServerTasks) + 1, <<"a", "b">>, "in_progress",
                               NowStamp))
  /\ serverNextTaskId = Len(serverTasks) + 1
  /\ serverNotes = InitialServerNotes
  /\ serverNextNoteId = Len(InitialServerNotes) + 1
  /\ tasks = SortByDue(InitialServerTasks)
  /\ editingTaskId = Null
  /\ taskError = NoError
  /\ isDeleting = FALSE
  /\ isFormOpen = TRUE
  /\ taskSearch = <<>>
  /\ groupMode = "day"
  /\ dragIndex = Null
  /\ dragTaskId = Null
  /\ reqs = Sending(storage,
                    {Req("loadTasks", "/tasks/", Null, Null, NoPayload, "closeForm")})
  /\ sent = 0

\* Rows are deleted and toggled while the reload is under way.
ReloadNext ==
  \/ \E t \in VisibleTaskSet : handleToggleDone(t)
  \/ \E id \in IdSet(VisibleTasks) : handleDeleteTask(id)
  \/ \E r \in InFlight : ServerAnswerTasks(r)
  \/ \E r \in InFlight : ResumeLoadTasks(r)
  \/ \E r \in InFlight : ResumePatchTask(r)
  \/ \E r \in InFlight : ResumeDeleteTask(r)

SpecTasksReload == ReloadInit /\ [][ReloadNext]_vars

\* What /tasks/ may hold: the dates of two tasks of today, one without a date
\* and one a week from today; dates of three days in two weeks and two
\* months with one that cannot be read; no dates at all; nothing.
ServerTaskLists ==
  { << Task(1, <<"a">>, "todo", 3), Task(2, <<"B">>, "done", 2),
       Task(3, <<"a">>, "todo", Null), Task(4, <<"B">>, "todo", 17) >>,
    << Task(1, <<"a">>, "todo", InvalidDue), Task(2, <<"B">>, "done", 21),
       Task(3, <<"a">>, "todo", 15), Task(4, <<"B">>, "todo", 1) >>,
    << Task(1, <<"a">>, "todo", Null), Task(2, <<"B">>, "todo", InvalidDue) >>,
    << >> }

\* App renders <Tasks/> and loadTasks has stored the sorted list.
CalendarInit ==
  /\ route = "tasks"
  /\ InitApp /\ InitNotes /\ InitEmails /\ InitShell /\ InitPomodoro
  /\ serverTasks \in ServerTaskLists
  /\ serverNextTaskId = Len(serverTasks) + 1
  /\ tasks = SortByDue(serverTasks)
  /\ editingTaskId = Null
  /\ taskError = NoError
  /\ isDeleting = FALSE
  /\ isFormOpen = FALSE
  /\ taskSearch = <<>>
  /\ groupMode = "day"
  /\ dragIndex = Null
  /\ dragTaskId = Null
  /\ serverNotes = InitialServerNotes
  /\ serverNextNoteId = Len(InitialServerNotes) + 1
  /\ reqs = EmptyBag
  /\ sent = 0

SpecCalendar == CalendarInit /\ [][CalendarNext]_vars

\* The statuses a stored task may carry: none, the three columns, one the
\* board has no column for, and one that names an inherited property.
BoardStatuses == {"", "todo", "in_progress", "done", "archived", "constructor"}
MaxBoard == 2        \* the longest task list the board is given at mount
BoardLists ==
  UNION {[1..n -> BoardStatuses] : n \in 0..MaxBoard}
BoardTasks(sts) == [i \in 1..Len(sts) |-> Task(i, <<"a">>, sts[i], Null)]

\* App renders <Tasks/> with the board; loadTasks has stored the list.
KanbanInit ==
  /\ route = "tasks"
  /\ InitApp /\ InitNotes /\ InitEmails /\ InitShell /\ InitPomodoro
  /\ \E sts \in BoardLists : serverTasks = BoardTasks(sts)
  /\ serverNextTaskId = Len(serverTasks) + 1
  /\ tasks = SortByDue(serverTasks)
  /\ editingTaskId = Null
  /\ taskError = NoError
  /\ isDeleting = FALSE
  /\ isFormOpen = FALSE
  /\ taskSearch = <<>>
  /\ groupMode = "day"
  /\ dragIndex = Null
  /\ dragTaskId = Null
  /\ serverNotes = InitialServerNotes
  /\ serverNextNoteId = Len(InitialServerNotes) + 1
  /\ reqs = EmptyBag
  /\ sent = 0

\* The board is on the screen: the render that computes columns has not thrown.
BoardRendered == ~columns(VisibleTasks).threw

\* Cards are dragged between the columns while the board is on the screen.
KanbanNext ==
  \/ \E id \in IdSet(VisibleTasks) : BoardRendered /\ handleCardDragStart(id)
  \/ \E st \in KANBAN_COLUMNS : BoardRendered /\ handleColumnDrop(st)
  \/ BoardRendered /\ handleDragEnd
  \/ \E r \in InFlight : BoardRendered /\ ServerAnswerTasks(r)
  \/ \E r \in InFlight : BoardRendered /\ ResumePatchTask(r)

SpecKanban == KanbanInit /\ [][KanbanNext]_vars

\* App renders <Notes/>: the mount effect's loadNotes is in flight.
NotesInit ==
  /\ route = "notes"
  /\ InitApp /\ InitServer /\ InitPages
  /\ reqs = Sending(storage, {Req("loadNotes", "/notes/", Null, Null, NoPayload, "")})
  /\ sent = 0

\* App renders <Emails/>: the mount effect's loadAccounts is in flight.
EmailsInit ==
  /\ route = "emails"
  /\ InitApp /\ InitServer /\ InitPages
  /\ reqs = Sending(storage, {Req("loadAccounts", "/email-accounts/", Null, Null, NoPayload, "")})
  /\ sent = 0

SpecEmails == EmailsInit /\ [][EmailsNext]_vars

\* The application starts with tokens in localStorage (App renders Layout and
\* the home page; Layout's mount requests are in flight) or without them (App
\* renders only Login).
AppInit ==
  /\ InitServer /\ InitPages
  /\ sent = 0
  /\ \/ /\ storage = Tokens("access-token", "refresh-token")
        /\ route = "home"
        /\ reqs = LayoutMountRequests(storage)
     \/ /\ storage = Tokens(NoToken, NoToken)
        /\ route = "login"
        /\ reqs = EmptyBag
  /\ isAuth = (storage.access # NoToken)
  /\ intervals = IF isAuth THEN {LayoutTimer} ELSE {}

SpecApp == AppInit /\ [][AppNext]_vars

\* Responses arrive, handlers resume and the interval keeps ticking.
SpecAppFair == SpecApp /\ WF_vars(AppProgress)

\* App renders <Calendar/>, whose Pomodoro widget is used.
PomodoroInit ==
  /\ route = "calendar"
  /\ InitApp /\ InitServer /\ InitPages
  /\ reqs = EmptyBag
  /\ sent = 0

SpecPomodoro == PomodoroInit /\ [][PomodoroNext]_vars

\* An interval that is not cleared keeps firing.
SpecPomodoroFair ==
  SpecPomodoro /\ WF_vars(\E cl \in pomodoroInterval : tick(cl))

\* Tasks and Notes, whichever App renders.
SpecTasksNotes == (TasksInit \/ NotesInit) /\ [][TasksNext \/ NotesNext]_vars

\* Emails and Notes, the two paginated pages.
SpecEmailsNotes == (EmailsInit \/ NotesInit) /\ [][EmailsNext \/ NotesNext]_vars

\* Emails inside Layout: the page, and the shell once the user has left it.
SpecEmailsShell == (EmailsInit \/ AppInit) /\ [][EmailsNext \/ AppNext]_vars

\* ------------------------------------------------------------------ claims
\* Request r's handler resumes in this step and awaits nothing more.
Resumes(r) == r \in InFlight /\ reqs' = Release(r)
PatchKinds == {"updateTask", "toggleTask", "kanbanTask"}
MutationKinds ==
  PatchKinds \cup {"createTask", "deleteTask", "createNote", "updateNote", "deleteNote"}
Max(a, b) == IF a > b THEN a ELSE b

\* C1: Emails page. Whenever the filtered message list changes and the
\* selected message's id is no longer in it, the step clears selectedMessage
\* and sets viewMode to "list"; and in every state selectedMessage is null or
\* the id of a message of filteredMessages.
C1_SelectionInFiltered ==
  route = "emails" =>
    (selectedMessage = Null \/ selectedMessage \in IdSet(FilteredMessages))

C1_MonitorClears ==
  (/\ route = "emails"
   /\ selectedMessage # Null
   /\ FilteredMessages' # FilteredMessages
   /\ selectedMessage \notin IdSet(FilteredMessages'))
  => (selectedMessage' = Null /\ viewMode' = "list")

C1_SelectionMonitor == [](C1_SelectionInFiltered) /\ [][C1_MonitorClears]_vars

\* A selection made in the detail view is still held in the list view after
\* the date filter changed to one that hides some of the loaded messages.
C1_Witness ==
  /\ route = "emails"
  /\ selectedMessage # Null
  /\ viewMode = "list"
  /\ dateMode = "year"
  /\ Len(FilteredMessages) < Len(messages)

\* C2: Tasks and Notes pages. In every state a non-null selection
\* (editingTaskId, editingNoteId) is the id of an item of the visible set, the
\* cache filtered by the active search / job / type filters.
C2_SelectionVisible ==
  /\ route = "tasks" => (editingTaskId = Null \/ editingTaskId \in IdSet(VisibleTasks))
  /\ route = "notes" => (editingNoteId = Null \/ editingNoteId \in IdSet(FilteredNotes))

\* The least k with k * size >= count.
CeilOf(count, size) ==
  CHOOSE k \in 0..count : k * size >= count /\ (k = 0 \/ (k - 1) * size < count)
\* The items at the 0-based indices lo, lo + 1, ..., hi - 1.
SliceOf(list, lo, hi) == [i \in 1..(hi - lo) |-> list[lo + i]]
PaginationOk(filtered, size, totalPages, safePage, slice) ==
  /\ totalPages = Max(1, CeilOf(Len(filtered), size))
  /\ safePage \in 1..totalPages
  /\ slice = SliceOf(filtered, (safePage - 1) * size,
                     Min((safePage - 1) * size + size, Len(filtered)))

\* C3: Emails (page size 20) and Notes (page size 10). In every state
\* totalPages = max(1, ceil(count / pageSize)), safePage lies in
\* 1..totalPages, and the displayed slice is the items at the indices
\* [(safePage-1)*pageSize, min((safePage-1)*pageSize + pageSize, count)) of
\* the filtered list.
C3_PaginationClamped ==
  /\ route = "emails" =>
       PaginationOk(FilteredMessages, PAGE_SIZE, EmailsView.totalPages,
                    EmailsView.safePage, EmailsView.pagedMessages)
  /\ route = "notes" =>
       PaginationOk(FilteredNotes, pageSize, NotesView.totalPages,
                    NotesView.safePage, NotesView.pageNotes)

\* The requested page is 3 while a reload has left 21 messages: the page
\* shown is the second, holding the one message at index 20.
C3_Witness ==
  /\ route = "emails"
  /\ page = 3
  /\ Len(FilteredMessages) = PAGE_SIZE + 1
  /\ EmailsView.safePage = 2
  /\ Len(EmailsView.pagedMessages) = 1

\* C4 as stated: every change of the filtered collection (filter change,
\* reload or mutation) sets the requested page to 1.
C4_AnyChangeResetsPage ==
  [][/\ (route = "emails" /\ FilteredMessages' # FilteredMessages) => page' = 1
     /\ (route = "notes" /\ FilteredNotes' # FilteredNotes) => notePage' = 1]_vars

\* C4, amended: a change of search text, account or date window (Emails), of
\* search text, job or type filter (Notes) sets the requested page to 1; a
\* step that changes the cache without changing a filter (reload, sync,
\* delete, create or update followed by reload) leaves the requested page as
\* it is.
C4_FilterChangeResetsPage ==
  [][/\ (/\ route = "emails"
         /\ <<search, selectedAccountId, dateMode>>' # <<search, selectedAccountId, dateMode>>)
        => page' = 1
     /\ (/\ route = "notes"
         /\ <<noteSearch, jobFilter, typeFilter>>' # <<noteSearch, jobFilter, typeFilter>>)
        => notePage' = 1
     /\ (/\ route = "emails"
         /\ messages' # messages
         /\ <<search, selectedAccountId, dateMode>>' = <<search, selectedAccountId, dateMode>>)
        => page' = page
     /\ (route = "notes" /\ notes' # notes) => notePage' = notePage]_vars

\* On page 2 of the unfiltered notes a note was deleted: one note less is
\* cached and the requested page is still 2.
C4_Witness ==
  /\ route = "notes"
  /\ notePage = 2
  /\ Len(notes) = Len(InitialServerNotes) - 1
  /\ jobFilter = AllJobs /\ typeFilter = "all" /\ noteSearch = <<>>

RECURSIVE Flatten(_)
Flatten(seqs) == IF seqs = <<>> THEN <<>> ELSE Head(seqs) \o Flatten(Tail(seqs))

\* C5: for the filtered list of any state, the slices of pages 1..totalPages
\* put one after the other are the filtered list itself (same order, every
\* item once); an empty list has one page, which is empty.
C5_PagesCoverList ==
  /\ route = "emails" =>
       /\ Flatten([k \in 1..EmailsView.totalPages |->
                     EmailsPagination(FilteredMessages, k).pagedMessages])
            = FilteredMessages
       /\ FilteredMessages = <<>> =>
            EmailsView.totalPages = 1 /\ EmailsView.pagedMessages = <<>>
  /\ route = "notes" =>
       /\ Flatten([k \in 1..NotesView.totalPages |->
                     NotesPagination(FilteredNotes, k).pageNotes])
            = FilteredNotes
       /\ FilteredNotes = <<>> =>
            NotesView.totalPages = 1 /\ NotesView.pageNotes = <<>>

\* Three pages of messages, the last one partial, the second one shown.
C5_Witness ==
  /\ route = "emails"
  /\ EmailsView.totalPages = 3
  /\ Len(FilteredMessages) % PAGE_SIZE # 0
  /\ EmailsView.safePage = 2

\* C6: when a PATCH for task X succeeds, the cache afterwards holds the
\* server's returned record where X was, every other entry is the same record
\* at the same position, and the length and id sequence are unchanged.
C6_PatchReplacesInPlace ==
  [][\A r \in InFlight :
       (r.kind \in PatchKinds /\ r.phase = "answered" /\ IsOk(r.resp) /\ Resumes(r))
       => /\ Len(tasks') = Len(tasks)
          /\ Ids(tasks') = Ids(tasks)
          /\ \A i \in 1..Len(tasks) :
               tasks'[i] = IF tasks[i].id = r.id THEN r.resp.body[1] ELSE tasks[i]]_vars

\* A PATCH of task 1 has been applied to a cache of two tasks: only one
\* request was sent after the initial load, and nothing is in flight.
C6_Witness ==
  /\ route = "tasks" /\ sent = 1 /\ InFlight = {}
  /\ Len(tasks) = 2
  /\ \E i \in 1..2 : tasks[i].id = 1 /\ tasks[i].status # "todo"

\* The handler of the failed create, update or delete r resumes in this step.
FailedMutationResumes(r) ==
  r.kind \in MutationKinds /\ r.phase = "answered" /\ ~IsOk(r.resp) /\ Resumes(r)
NetworkErrorTexts ==
  {<<"Network error while saving task. Check console for details.">>,
   <<"Network error while updating task. Check console for details.">>,
   <<"Network error while deleting task. Check console for details.">>,
   <<"Network error while saving note. Check console for details.">>,
   <<"Network error while deleting note. Check console for details.">>}

C8_DeleteClearsOwnSelectionOnly ==
  [][\A r \in InFlight :
       (/\ r.kind \in {"deleteTask", "deleteNote"}
        /\ r.phase = "answered" /\ IsOk(r.resp) /\ Resumes(r))
       => IF r.kind = "deleteTask"
          THEN /\ r.id \notin IdSet(tasks')
               /\ editingTaskId' = IF editingTaskId = r.id THEN Null ELSE editingTaskId
          ELSE /\ r.id \notin IdSet(notes')
               /\ editingNoteId' = IF editingNoteId = r.id THEN Null ELSE editingNoteId]_vars

Cleared == Tokens(NoToken, NoToken)
Is401OffLogin(r) == r.resp.status = 401 /\ r.url # "/token/"

\* C9: API client. For every error response or network error the await is
\* rejected with that error; a 401 from a url other than "/token/" removes
\* both tokens from storage, a 401 from "/token/" and every other error leave
\* storage as it is. (handleLogout removes the tokens itself whatever the
\* answer, so its resumption is no evidence either way.)
C9_InterceptorOutcome ==
  \A r \in InFlight : (r.phase = "answered" /\ ~IsOk(r.resp)) =>
    LET out == ResponseInterceptor(storage, r.url, r.resp) IN
    /\ out.settled = "rejected" /\ out.value = r.resp
    /\ out.storage = IF Is401OffLogin(r) THEN Cleared ELSE storage

C9_StorageAfterError ==
  \A r \in InFlight :
    (r.phase = "answered" /\ ~IsOk(r.resp) /\ Resumes(r) /\ r.kind # "logout")
    => storage' = IF Is401OffLogin(r) THEN Cleared ELSE storage

C9_Unauthorized == [](C9_InterceptorOutcome) /\ [][C9_StorageAfterError]_vars

\* Tokens are stored (an earlier login succeeded) while "/token/" has
\* answered another login with 401.
C9_Witness ==
  /\ storage.access # NoToken
  /\ \E r \in InFlight : r.phase = "answered" /\ r.url = "/token/" /\ r.resp.status = 401

\* C10: once a url other than "/token/" has answered 401, the application
\* eventually leaves the authenticated state (isAuth becomes false).
C10_ReauthForced ==
  (\E r \in InFlight : r.phase = "answered" /\ Is401OffLogin(r)) ~> ~isAuth

\* C11: at most one auto-sync interval is active; it exists only while Emails
\* is mounted and its closure holds the current account and the current
\* search text; Layout's interval exists only while Layout is mounted; and
\* every tick sends its request for its owner as it is now: a silent sync
\* only on the Emails page for the current account, an unread-count poll
\* only while Layout is mounted.
C11_TimersBelongToOwners ==
  /\ Cardinality(EmailTimers) <= 1
  /\ \A tm \in EmailTimers :
       route = "emails" /\ tm.account = currentAccount /\ tm.q = search
  /\ \A tm \in intervals \ EmailTimers : tm = LayoutTimer /\ isAuth

C11_TicksForOwners ==
  \A r \in BagToSet(reqs') :
    (r.phase = "sent" /\ CopiesIn(r, reqs') > CopiesIn(r, reqs)) =>
      /\ (r.kind = "sync" /\ r.then = "silent") =>
           route = "emails" /\ r.id = currentAccount /\ r.payload.q = search
      /\ (r.kind = "fetchUnreadCount" /\ route' = route) => isAuth

C11_IntervalsBoundToOwners ==
  [](C11_TimersBelongToOwners) /\ [][C11_TicksForOwners]_vars

\* The account was switched after a tick for the previous account, and the
\* only interval left is the one for the new account.
C11_Witness ==
  /\ route = "emails"
  /\ \E r \in InFlight : r.kind = "sync" /\ r.then = "silent"
                             /\ r.id # selectedAccountId
  /\ EmailTimers = {Timer("Emails", selectedAccountId, search)}

\* The groups of the render, and the places <<group, item>> they hold.
CalendarGroups == grouped(VisibleTasks, groupMode)
GroupSlots(G) ==
  {p \in (1..Len(G)) \X (1..Len(VisibleTasks)) : p[2] <= Len(G[p[1]].items)}
Undated(t) == t.due_date \in {Null, InvalidDue}

\* C12: in every grouping mode, every task of the filtered list is in
\* exactly one place of exactly one group, the groups hold nothing else,
\* no group is empty or listed twice, and a task is in the one group
\* labelled "No due date" exactly when its due_date is missing or cannot be
\* parsed.
C12_GroupsPartitionFiltered ==
  LET G == CalendarGroups
      slots == GroupSlots(G)
  IN /\ \A n \in 1..Len(VisibleTasks) :
          Cardinality({p \in slots : G[p[1]].items[p[2]].task = VisibleTasks[n]}) = 1
     /\ \A p \in slots : \E n \in 1..Len(VisibleTasks) :
          G[p[1]].items[p[2]].task = VisibleTasks[n]
     /\ Cardinality(slots) = Len(VisibleTasks)
     /\ \A i \in 1..Len(G) : G[i].items # <<>>
     /\ \A i, j \in 1..Len(G) : G[i].key = G[j].key => i = j
     /\ \A p \in slots :
          Undated(G[p[1]].items[p[2]].task)
            <=> (G[p[1]].key = noDateKey /\ G[p[1]].label = <<"No due date">>)

\* Week mode over a reordered cache that holds an unparseable date: two
\* weeks and the "No due date" group.
C12_Witness ==
  /\ groupMode = "week"
  /\ \E n \in 1..Len(VisibleTasks) : VisibleTasks[n].due_date = InvalidDue
  /\ tasks # SortByDue(tasks)
  /\ Len(CalendarGroups) = 3

Earliest(g) ==
  CHOOSE d \in {g.items[k].task.due_date : k \in 1..Len(g.items)} :
    \A k \in 1..Len(g.items) : d <= g.items[k].task.due_date

\* C13: in every mode and for every order of the cache, no group follows
\* the "No due date" group and the dated groups are listed by ascending
\* earliest due date; the tasks due today (two), in a week (one) and without
\* a date (one) give, in day mode, "Today" (2), the day of the later date
\* (1), "No due date" (1).
C13_GroupsInDateOrder ==
  LET G == CalendarGroups IN
  /\ \A i, j \in 1..Len(G) :
       i < j => /\ G[i].key # noDateKey
                /\ G[j].key # noDateKey => Earliest(G[i]) < Earliest(G[j])
  /\ (Len(serverTasks) = 4 /\ serverTasks[1].due_date = NowStamp
        /\ taskSearch = <<>> /\ groupMode = "day")
       => [i \in 1..Len(G) |-> <<G[i].label, Len(G[i].items)>>]
            = << <<(<<"Today">>), 2>>, <<(<<"day", "8">>), 1>>,
                 <<(<<"No due date">>), 1>> >>

\* Day mode after drags have put the task without a date first and the
\* later date before today's tasks.
C13_Witness ==
  /\ groupMode = "day"
  /\ taskSearch = <<>>
  /\ Len(tasks) = 4
  /\ tasks[1].due_date = Null
  /\ tasks[2].due_date = 17
  /\ tasks[4].due_date = 2
\* The date a message's sent_at reads as in local time, as far as a window
\* of the given mode looks at it; <<>> for window "all".
DateParts(date, mode) ==
  IF mode = "day" THEN <<date.y, date.m, date.d>>
  ELSE IF mode = "month" THEN <<date.y, date.m>>
  ELSE IF mode = "year" THEN <<date.y>>
  ELSE <<>>
Readable(m) == m.sent_at \notin {MissingDate, InvalidDate}
InWindow(m, mode) ==
  mode = "all" \/ (Readable(m) /\ DateParts(m.sent_at, mode) = DateParts(Now, mode))
PassingIds(mode) == IdSet(filteredMessages(messages, mode))

\* C14: Emails date-window filter. For the messages of the cache, window
\* "all" keeps every message; "day" keeps exactly those whose sent_at has
\* now's year, month and day, "month" those with now's year and month, "year"
\* those with now's year; a message whose sent_at is missing or unreadable
\* passes only "all"; the kept messages stay in the order of the cache. The
\* day result is a subset of the month result, which is a subset of the year
\* result.
C14_DateWindows ==
  /\ \A mode \in DateModes :
        filteredMessages(messages, mode) = SelectSeq(messages, LAMBDA m : InWindow(m, mode))
  /\ filteredMessages(messages, "all") = messages
  /\ \A mode \in DateModes \ {"all"} :
        PassingIds(mode) \cap IdSet(SelectSeq(messages, LAMBDA m : ~Readable(m))) = {}
  /\ PassingIds("day") \subseteq PassingIds("month")
  /\ PassingIds("month") \subseteq PassingIds("year")

\* The cache holds a message of today, one of another day of this month, one
\* of another month of this year, one of this month and day of another year,
\* one without sent_at and one with an unreadable sent_at, and the window
\* shown is narrower than "all".
C14_Witness ==
  /\ {messages[i].sent_at : i \in 1..Len(messages)} =
       {Now, IsoDate(2, 2, 1), IsoDate(2, 1, 2), IsoDate(1, 2, 2), MissingDate, InvalidDate}
  /\ dateMode = "month"
  /\ PassingIds("day") # {}
  /\ PassingIds("day") # PassingIds("month")
  /\ PassingIds("month") # PassingIds("year")
  /\ PassingIds("year") # IdSet(messages)

\* The requests a step puts on the wire.
IssuedNow == {r \in BagToSet(reqs') : r.phase = "sent" /\ CopiesIn(r, reqs') > CopiesIn(r, reqs)}
BearerOf(st) == IF st.access = NoToken THEN <<>> ELSE <<"Bearer", st.access>>

\* C15: every request sent through the API client carries the header
\* Authorization: Bearer t, where t is what localStorage holds under "access"
\* when the request is issued (in a step that stores the tokens of a login
\* and then mounts Layout, the tokens just stored), and carries no
\* Authorization header when no access token is stored: before login, after
\* logout, after a 401 from a protected endpoint.
C15_IssuedWithStoredToken ==
  [][\A r \in IssuedNow : r.auth = BearerOf(storage')]_vars

\* After a logout and a second login that stored another access token, a
\* request sent before the logout is still in flight with the first token
\* and a request has been sent with the second; the login between them was
\* sent without header.
C15_Witness ==
  /\ storage.access = "access-token-2"
  /\ \E r \in InFlight : r.phase = "sent" /\ r.auth = <<"Bearer", "access-token-2">>
  /\ \E r \in InFlight : r.auth = <<"Bearer", "access-token">>

\* C16: Emails page. A message-list response that resolves after the
\* selected account has changed is discarded: when fetchMessages resumes with
\* the messages of an account that is no longer the selected one, the
\* messages cache stays as it is.
C16_StaleResponseDiscarded ==
  [][\A r \in InFlight :
       (/\ Resumes(r)
        /\ r.kind = "fetchMessages"
        /\ IsOk(r.resp)
        /\ r.id # selectedAccountId)
       => messages' = messages]_vars

\* The record the list holds for an id it holds.
EntryOf(list, id) == list[CHOOSE i \in 1..Len(list) : list[i].id = id]
\* The PATCH requests for the task of r that are in flight beside r.
PatchesBeside(r) ==
  {q \in InFlight : q.kind \in PatchKinds /\ q.id = r.id /\ (q # r \/ CopiesIn(r, reqs) > 1)}

\* C17: Tasks page, two PATCH requests for one task in flight at the same
\* time. Whichever of them resolves with success, the cache entry of the task
\* is from then on the record of that response, while the other is still in
\* flight as well as after the other has resolved before it: once both have
\* resolved, the entry is the response of the one that resolved last,
\* whatever the order in which they were issued and answered.
C17_LastResolvedWins ==
  [][\A r \in InFlight :
       (/\ r.kind \in PatchKinds
        /\ r.phase = "answered" /\ IsOk(r.resp)
        /\ Resumes(r)
        /\ r.id \in IdSet(tasks))
       => /\ EntryOf(tasks', r.id) = r.resp.body[1]
          /\ \A q \in PatchesBeside(r) : q \in BagToSet(reqs')]_vars

\* Two PATCHes of one task were sent and both have resolved with success;
\* the one the server answered first resolved last, so the cache holds its
\* record and not the one the server ended with.
C17_Witness ==
  /\ route = "tasks" /\ sent = 2 /\ InFlight = {}
  /\ taskError = NoError
  /\ Ids(tasks) = Ids(SortByDue(serverTasks))
  /\ \E id \in IdSet(tasks) :
       EntryOf(tasks, id).status # EntryOf(serverTasks, id).status

\* The handlers of the Tasks page that change the cache after an await.
CacheUpdateKinds == PatchKinds \cup {"deleteTask"}
Records(list) == {list[i] : i \in 1..Len(list)}

\* C18: Tasks page. When a form update, a checkbox toggle, a Kanban update
\* or a delete resumes with success, its change is applied to the cache as
\* it is at that moment and not to the cache the handler saw when it sent the
\* request: the record of every other task is after the step what it was
\* just before it (a change applied to it while the request was in flight
\* stays, a task removed meanwhile does not come back), and only the task of
\* the request is replaced or removed.
C18_UpdatesApplyToCurrentCache ==
  [][\A r \in InFlight :
       (r.kind \in CacheUpdateKinds /\ r.phase = "answered" /\ IsOk(r.resp) /\ Resumes(r))
       => /\ {t \in Records(tasks') : t.id # r.id} = {t \in Records(tasks) : t.id # r.id}
          /\ tasks' = IF r.kind = "deleteTask"
                      THEN RemoveById(tasks, r.id)
                      ELSE ReplaceById(tasks, r.id, r.resp.body[1])]_vars

\* A request that changes the cache is answered with success and about to
\* resume, and since it was sent the record of another task has been changed
\* in the cache or removed from it.
C18_Witness ==
  \E r \in InFlight :
    /\ r.kind \in CacheUpdateKinds /\ r.phase = "answered" /\ IsOk(r.resp)
    /\ r.id \in IdSet(tasks)
    /\ {t \in Records(r.seen) : t.id # r.id} # {t \in Records(tasks) : t.id # r.id}

\* The step sends exactly one request: a PATCH of task id whose body is the
\* status field alone, with the given value.
OneStatusPatch(id, status) ==
  /\ BagCardinality(reqs') = BagCardinality(reqs) + 1
  /\ \E r \in IssuedNow :
       /\ IssuedNow = {r}
       /\ CopiesIn(r, reqs') = CopiesIn(r, reqs) + 1
       /\ r.kind \in PatchKinds /\ r.url = "/tasks/:id/" /\ r.id = id
       /\ r.payload.fields = {"status"}
       /\ r.payload.status = status
DraggedCard == {t \in VisibleTaskSet : t.id = dragTaskId}

\* C19: a Kanban column drop and a checkbox toggle each send exactly one
\* PATCH whose body is the status field alone. Dropping the dragged card on a
\* column whose status is not the task's sends one PATCH {status} with the
\* column's status; dropping it on the task's own column, dropping with no
\* card dragged, or dropping a card whose task is no longer in the board's
\* list sends nothing; a checkbox toggle sends one PATCH {status} that turns
\* "done" into "todo" and any other status into "done".
C19_OnePatchWithStatusOnly ==
  [][/\ \A st \in KANBAN_COLUMNS :
          handleColumnDrop(st) =>
            IF \E t \in DraggedCard : currentStatus(t) # st
            THEN OneStatusPatch(dragTaskId, st)
            ELSE reqs' = reqs /\ tasks' = tasks
     /\ \A t \in VisibleTaskSet :
          handleToggleDone(t) =>
            OneStatusPatch(t.id, IF t.status = "done" THEN "todo" ELSE "done")]_vars

\* A card has been dropped on another column and the PATCH of that drop is
\* the one request in flight, while a second card is dragged whose task the
\* search box has taken out of the board's list.
C19_Witness ==
  /\ route = "tasks" /\ sent = 1
  /\ \E r \in InFlight :
       /\ InFlight = {r}
       /\ r.kind = "kanbanTask" /\ r.phase = "sent"
       /\ r.payload.fields = {"status"}
  /\ dragTaskId \in IdSet(tasks) \ IdSet(VisibleTasks)

\* C20: every failure of a request sent by a handler of the Tasks page
\* (initial load, reload after a successful create, create, update, delete)
\* ends in a non-empty user-visible error: when the handler resumes from the
\* failed request, the page's error state is a message.
C20_FailuresEndVisible ==
  [][\A r \in InFlight :
       (/\ r.url \in {"/tasks/", "/tasks/:id/"}
        /\ r.phase = "answered" /\ ~IsOk(r.resp)
        /\ Resumes(r))
       => taskError' # NoError]_vars

\* The requests of background polling: the POST of an auto-sync tick, the
\* message reload that tick goes on with, Layout's unread-count poll.
IsBackground(r) ==
  \/ r.kind \in {"sync", "fetchMessages"} /\ r.then = "silent"
  \/ r.kind = "fetchUnreadCount"

\* C21: background polling never surfaces its failures. When the handler of
\* a failed request of an auto-sync tick (the sync POST or the message reload
\* that follows it) or of Layout's unread-count poll resumes, the error state
\* the user sees is what it was; when a manual "Sync now" fails, the error
\* state is a message.
C21_BackgroundFailuresSilent ==
  [][\A r \in InFlight :
       (r.phase = "answered" /\ ~IsOk(r.resp) /\ Resumes(r))
       => /\ IsBackground(r) =>
               emailError' = emailError /\ userError' = userError
                                        /\ loginError' = loginError
          /\ (r.kind = "sync" /\ r.then = "manual") => emailError' # NoError]_vars

\* What loadTasks puts into the cache for the response the server gives.
LoadedTasks == SortByDue(serverTasks)
IsPermutation(a, b) ==
  /\ Len(a) = Len(b)
  /\ \A x \in Records(a) \cup Records(b) :
       Cardinality({i \in 1..Len(a) : a[i] = x}) = Cardinality({i \in 1..Len(b) : b[i] = x})

\* C22: Tasks load sort. The cache loadTasks sets is a permutation of the
\* response in which the tasks with a valid due date are in ascending order
\* of due date and every task whose due_date is missing or does not parse
\* comes after every task with a valid due date.
C22_LoadSortsInvalidLast ==
  /\ IsPermutation(LoadedTasks, serverTasks)
  /\ \A i, j \in 1..Len(LoadedTasks) :
       i < j =>
         /\ (hasDate(LoadedTasks[i]) /\ hasDate(LoadedTasks[j]))
              => LoadedTasks[i].due_date <= LoadedTasks[j].due_date
         /\ hasDate(LoadedTasks[j]) => hasDate(LoadedTasks[i])

\* The message fetches the user caused that have not resolved: those of the
\* effect on account and search, and the reload of a manual sync.
UserFetches == {r \in InFlight : r.kind = "fetchMessages" /\ r.then # "silent"}

\* C23: Emails page. While the page is shown, loadingMessages is true at
\* every moment at which a message fetch the user caused is in flight, also
\* when two such fetches overlap and one of them has resolved.
C23_LoadingWhileFetching ==
  (route = "emails" /\ UserFetches # {}) => loadingMessages

Without(list, id) == SelectSeq(list, LAMBDA t : t.id # id)
PositionOf(list, id) == CHOOSE i \in 1..Len(list) : list[i].id = id

\* C25: Tasks drag-and-drop reorder, for every cache and every search query.
\* Dropping the dragged row on another visible row moves the task the user
\* dragged to the position the task it was dropped on has in the cache and
\* keeps the relative order of all other tasks; dropping a row on itself or
\* dropping with no drag in progress changes nothing.
C25_DropMovesDraggedTask ==
  [][\A i \in 1..Len(VisibleTasks) :
       handleDrop(i) =>
         IF dragIndex \notin 1..Len(VisibleTasks) \/ dragIndex = i
         THEN tasks' = tasks
         ELSE LET dragged == VisibleTasks[dragIndex].id
                  target == VisibleTasks[i].id
              IN /\ IsPermutation(tasks', tasks)
                 /\ PositionOf(tasks', dragged) = PositionOf(tasks, target)
                 /\ Without(tasks', dragged) = Without(tasks, dragged)]_vars

\* C26: Tasks page, one client. Whenever no request is in flight, the ids
\* of the tasks cache are the ids of the tasks the server holds; in
\* particular, when a reload resolves with success and leaves no request in
\* flight, the cache holds no task whose DELETE has succeeded.
C26_ReloadConvergesToServer ==
  [][\A r \in InFlight :
       (/\ r.kind = "loadTasks" /\ r.phase = "answered" /\ IsOk(r.resp)
        /\ Resumes(r)
        /\ BagToSet(reqs') = {})
       => IdSet(tasks') = IdSet(serverTasks')]_vars

\* C27: Emails page. In every state, once the effects of the step have
\* run, viewMode = "detail" implies that selectedMessage is not null, through
\* message clicks, back-to-list clicks, account switches, filter changes and
\* reloads.
C27_DetailHasSelection ==
  (route = "emails" /\ viewMode = "detail") => selectedMessage # Null

\* The detail view shows a message, and the response of a reload that no
\* longer holds that message is about to be delivered.
C27_Witness ==
  /\ route = "emails" /\ viewMode = "detail"
  /\ selectedMessage \in IdSet(FilteredMessages)
  /\ \E r \in InFlight :
       /\ r.kind = "fetchMessages" /\ r.phase = "answered" /\ IsOk(r.resp)
       /\ selectedMessage \notin IdSet(r.resp.body)

\* C28: the stored tokens form a pair. In every state storage holds both
\* "access" and "refresh" or neither. Login stores them only when the /token/
\* response holds both: otherwise storage, isAuth and the route stay as they
\* are and the Login page shows an error. Logout removes both whether the
\* /logout/ request succeeded or failed. A 401 from a url other than /token/
\* removes both.
TokensPaired == (storage.access = NoToken) <=> (storage.refresh = NoToken)
HoldsBothTokens(resp) ==
  IsOk(resp) /\ resp.body[1].access # NoToken /\ resp.body[1].refresh # NoToken

C28_LoginStoresPair ==
  \A r \in InFlight : (r.kind = "login" /\ r.phase = "answered" /\ Resumes(r)) =>
    IF HoldsBothTokens(r.resp)
    THEN /\ storage' = Tokens(r.resp.body[1].access, r.resp.body[1].refresh)
         /\ isAuth'
    ELSE /\ storage' = storage
         /\ isAuth' = isAuth /\ route' = route
         /\ route = "login" => loginError' # NoError

C28_LogoutRemovesPair ==
  \A r \in InFlight : (r.kind = "logout" /\ r.phase = "answered" /\ Resumes(r)) =>
    storage' = Cleared

C28_UnauthorizedRemovesPair ==
  \A r \in InFlight : (r.phase = "answered" /\ Is401OffLogin(r) /\ Resumes(r)) =>
    storage' = Cleared

C28_TokensFormPair ==
  /\ [](TokensPaired)
  /\ [][C28_LoginStoresPair /\ C28_LogoutRemovesPair /\ C28_UnauthorizedRemovesPair]_vars

\* /token/ answered 200 without the refresh token: Login shows its error,
\* nothing is stored and the application is not authenticated.
C28_Witness ==
  /\ route = "login" /\ loginError = TokensMissing
  /\ storage = Cleared /\ ~isAuth

\* Tokens are stored while /logout/ has answered with a failure.
C28_WitnessLogoutFailed ==
  /\ storage.access # NoToken /\ storage.refresh # NoToken
  /\ \E r \in InFlight : r.kind = "logout" /\ r.phase = "answered" /\ ~IsOk(r.resp)

\* C29: Pomodoro timer. In every state minutes >= 0 and 0 <= seconds <= 59.
\* While time remains, a tick reduces minutes * 60 + seconds by exactly one
\* and leaves running as it is; a tick at 00:00 sets running to false and
\* stays at 00:00. reset restores 25:00 with running false. A running timer
\* eventually stops; as only a tick at 00:00, toggle and reset set running to
\* false, a timer left alone counts from 25:00 down to 00:00 and stops there.
Remaining == minutes * 60 + seconds
C29_Range == minutes >= 0 /\ seconds \in 0..59
C29_TickStep ==
  (\E cl \in pomodoroInterval : tick(cl)) =>
    IF Remaining > 0
    THEN Remaining' = Remaining - 1 /\ running' = running
    ELSE Remaining' = 0 /\ ~running'
C29_OnlyTickCounts == (Remaining' # Remaining) =>
  (reset \/ \E cl \in pomodoroInterval : tick(cl))
C29_ResetStep ==
  reset => (minutes' = initialMinutes /\ seconds' = 0 /\ ~running')
C29_Countdown ==
  /\ [](C29_Range)
  /\ [][C29_TickStep /\ C29_OnlyTickCounts /\ C29_ResetStep]_vars
  /\ (running ~> ~running)

\* The timer has counted down to 00:00 and has stopped there.
C29_Witness == Remaining = 0 /\ ~running /\ pomodoroInterval = {}

\* C30: KanbanBoard. Every task of the board's list is in exactly one of the
\* three columns, in the order of the list: the column of its status when
\* that is todo, in_progress or done, and To Do when the status is missing or
\* any other value; the three column lengths sum to the length of the list.
ColumnOf(task) ==
  IF task.status \in {"in_progress", "done"} THEN task.status ELSE "todo"
C30_ColumnAssignment ==
  route = "tasks" =>
    LET c == columns(VisibleTasks) IN
    /\ ~c.threw
    /\ \A k \in KANBAN_COLUMNS :
         c[k] = SelectSeq(VisibleTasks, LAMBDA t : ColumnOf(t) = k)
    /\ Len(c.todo) + Len(c.in_progress) + Len(c.done) = Len(VisibleTasks)

====
